---------------------------- MODULE Spec2Model ----------------------------
(***************************************************************************)
(* A model of the reaction-CSV Discord bot (a Cloudflare worker): the      *)
(* POST / route of the server, from the raw request bytes to the response, *)
(* with the pure helpers of util.js (emoji keys, CSV quoting and building).*)
(*                                                                         *)
(* Text is a sequence of characters, a character a one-element string      *)
(* ("a", ",", "\n"; "u1F60A" and "uFFFD" stand for one code point each).   *)
(* A request body is a sequence of byte chunks, one chunk per JSON lexeme. *)
(***************************************************************************)
EXTENDS Integers, Sequences, FiniteSets, TLC

(***************************************************************************)
(* Bounds of the model.                                                    *)
(***************************************************************************)
\* the longest reaction list of the enumerated small messages
MaxReactions == 2
\* the longest user list a fetch of a small message fulfils with
MaxUsers == 2
\* up to this many concurrent fetches settle in every order; more settle from
\* the two ends of the launch order only
FreeSettleLimit == 4
\* the longest string csvQuote is called with
MaxCellLen == 3
\* the most lines added to one CsvBuilder, and the most calls of its build()
MaxLines == 2
MaxBuilds == 2
\* the longest emoji name the keys are computed for
MaxNameLen == 2

(***************************************************************************)
(* Constants of the program and of the libraries it imports.               *)
(***************************************************************************)
\* InteractionType (discord-interactions)
PING == 1
APPLICATION_COMMAND == 2
\* InteractionResponseType (discord-interactions)
PONG == 1
CHANNEL_MESSAGE_WITH_SOURCE == 4
MODAL == 9
\* InteractionResponseFlags (discord-interactions)
EPHEMERAL == 64
\* MessageComponentTypes, TextStyleTypes (discord-interactions)
LABEL == 18
INPUT_TEXT == 4
PARAGRAPH == 2
\* reactions.length = 30
ReactionLimit == 30
\* the reactions of the test "should sort and truncate reactions to 30"
TestReactionCount == 34

(***************************************************************************)
(* Generic sequence helpers.                                               *)
(***************************************************************************)
RECURSIVE Flatten(_)
Flatten(ss) == IF ss = <<>> THEN <<>> ELSE Head(ss) \o Flatten(Tail(ss))

RECURSIVE JoinWith(_, _)
JoinWith(ss, sep) ==
  IF ss = <<>> THEN <<>>
  ELSE IF Len(ss) = 1 THEN ss[1]
  ELSE ss[1] \o sep \o JoinWith(Tail(ss), sep)

Min(a, b) == IF a < b THEN a ELSE b

(***************************************************************************)
(* String literals of the program.                                         *)
(***************************************************************************)
SomethingWentWrong ==
  <<"s", "o", "m", "e", "t", "h", "i", "n", "g", " ", "w", "e", "n", "t", " ",
    "w", "r", "o", "n", "g">>
NoReactionsFound ==
  <<"n", "o", " ", "r", "e", "a", "c", "t", "i", "o", "n", "s", " ",
    "f", "o", "u", "n", "d">>
HeaderEmoji == <<"e", "m", "o", "j", "i">>
HeaderUserId == <<"d", "i", "s", "c", "o", "r", "d", "U", "s", "e", "r", "I", "d">>
HeaderUserName ==
  <<"d", "i", "s", "c", "o", "r", "d", "U", "s", "e", "r", "N", "a", "m", "e">>
ReactionCsvName ==
  <<"G", "e", "t", " ", "r", "e", "a", "c", "t", "i", "o", "n", "s", " ",
    "a", "s", " ", "C", "S", "V">>
InviteName == <<"i", "n", "v", "i", "t", "e">>
UnknownCommandPrefix ==
  <<"U", "n", "k", "n", "o", "w", "n", " ", "C", "o", "m", "m", "a", "n", "d", ":", " ">>
\* the unknown-type message without its words "Interaction Type"
UnknownTypePrefixBare == <<"U", "n", "k", "n", "o", "w", "n", ":", " ">>
UnknownTypePrefix ==
  <<"U", "n", "k", "n", "o", "w", "n", " ", "I", "n", "t", "e", "r", "a", "c", "t",
    "i", "o", "n", " ", "T", "y", "p", "e", ":", " ">>
InvalidSignatureText ==
  <<"[", "d", "i", "s", "c", "o", "r", "d", "M", "i", "d", "d", "l", "e", "w", "a",
    "r", "e", "]", " ", "I", "n", "v", "a", "l", "i", "d", " ", "s", "i", "g", "n",
    "a", "t", "u", "r", "e">>
UndefinedText == <<"u", "n", "d", "e", "f", "i", "n", "e", "d">>

\* property names read by the handler
KType == <<"t", "y", "p", "e">>
KData == <<"d", "a", "t", "a">>
KName == <<"n", "a", "m", "e">>
KResolved == <<"r", "e", "s", "o", "l", "v", "e", "d">>
KMessages == <<"m", "e", "s", "s", "a", "g", "e", "s">>
KTargetId == <<"t", "a", "r", "g", "e", "t", "_", "i", "d">>
KReactions == <<"r", "e", "a", "c", "t", "i", "o", "n", "s">>
KCount == <<"c", "o", "u", "n", "t">>
KEmoji == <<"e", "m", "o", "j", "i">>
KId == <<"i", "d">>
KAnimated == <<"a", "n", "i", "m", "a", "t", "e", "d">>
KUsername == <<"u", "s", "e", "r", "n", "a", "m", "e">>

(***************************************************************************)
(* String.prototype.toLowerCase, character by character.                   *)
(***************************************************************************)
UpperCase ==
  {"A", "B", "C", "D", "E", "F", "G", "H", "I", "J", "K", "L", "M", "N", "O", "P",
   "Q", "R", "S", "T", "U", "V", "W", "X", "Y", "Z"}

LowerOf(c) ==
  CASE c = "A" -> "a" [] c = "B" -> "b" [] c = "C" -> "c" [] c = "D" -> "d"
    [] c = "E" -> "e" [] c = "F" -> "f" [] c = "G" -> "g" [] c = "H" -> "h"
    [] c = "I" -> "i" [] c = "J" -> "j" [] c = "K" -> "k" [] c = "L" -> "l"
    [] c = "M" -> "m" [] c = "N" -> "n" [] c = "O" -> "o" [] c = "P" -> "p"
    [] c = "Q" -> "q" [] c = "R" -> "r" [] c = "S" -> "s" [] c = "T" -> "t"
    [] c = "U" -> "u" [] c = "V" -> "v" [] c = "W" -> "w" [] c = "X" -> "x"
    [] c = "Y" -> "y" [] c = "Z" -> "z" [] OTHER -> c

ToLowerCase(s) == [i \in 1..Len(s) |-> LowerOf(s[i])]

(***************************************************************************)
(* Number.prototype.toString for the non-negative integers of the model.   *)
(***************************************************************************)
Digit(d) ==
  CASE d = 0 -> "0" [] d = 1 -> "1" [] d = 2 -> "2" [] d = 3 -> "3" [] d = 4 -> "4"
    [] d = 5 -> "5" [] d = 6 -> "6" [] d = 7 -> "7" [] d = 8 -> "8" [] d = 9 -> "9"

RECURSIVE NumToString(_)
NumToString(n) ==
  IF n < 10 THEN <<Digit(n)>> ELSE NumToString(n \div 10) \o <<Digit(n % 10)>>

(***************************************************************************)
(* JavaScript values, as far as the handler reads them.  A value is a      *)
(* record [k |-> kind, v |-> payload]; an object's payload is the sequence *)
(* of its members [key |-> text, val |-> value] in insertion order, an     *)
(* array's the sequence of its elements.                                   *)
(***************************************************************************)
JUndef == [k |-> "undefined", v |-> <<>>]
JNull == [k |-> "null", v |-> <<>>]
JBool(b) == [k |-> "bool", v |-> b]
JNum(n) == [k |-> "num", v |-> n]
JStr(s) == [k |-> "str", v |-> s]
JArr(a) == [k |-> "arr", v |-> a]
JObj(m) == [k |-> "obj", v |-> m]
Member(key, val) == [key |-> key, val |-> val]

\* o[key] (and o?.[key]): undefined for a missing member and for a non-object
Get(o, key) ==
  IF o.k = "obj" /\ \E i \in 1..Len(o.v) : o.v[i].key = key
    THEN LET last == CHOOSE i \in 1..Len(o.v) :
                       /\ o.v[i].key = key
                       /\ \A j \in 1..Len(o.v) : o.v[j].key = key => j <= i
         IN o.v[last].val
    ELSE JUndef

\* value === n, n a number
IsNum(o, n) == o.k = "num" /\ o.v = n

\* o.key without optional chaining throws a TypeError on undefined and null
IsNullish(o) == o.k \in {"undefined", "null"}

\* ToBoolean
Truthy(o) ==
  CASE o.k \in {"undefined", "null"} -> FALSE
    [] o.k = "bool" -> o.v
    [] o.k = "num" -> o.v # 0
    [] o.k = "str" -> o.v # <<>>
    [] OTHER -> TRUE

\* the template-literal / toString conversion of a value that has one
RECURSIVE ToStringJs(_)
ToStringJs(o) ==
  CASE o.k = "str" -> o.v
    [] o.k = "num" -> NumToString(o.v)
    [] o.k = "bool" -> IF o.v THEN <<"t", "r", "u", "e">> ELSE <<"f", "a", "l", "s", "e">>
    [] o.k = "undefined" -> UndefinedText
    [] o.k = "null" -> <<"n", "u", "l", "l">>
    [] o.k = "arr" ->
         JoinWith([i \in 1..Len(o.v) |-> IF IsNullish(o.v[i]) THEN <<>> ELSE ToStringJs(o.v[i])],
                  <<",">>)
    [] o.k = "obj" ->
         <<"[", "o", "b", "j", "e", "c", "t", " ", "O", "b", "j", "e", "c", "t", "]">>

(***************************************************************************)
(* JSON text, lexeme by lexeme: a lexeme is [t |-> kind, v |-> payload],   *)
(* kind one of { } [ ] : , true false null num str, or uFFFD for the       *)
(* replacement character (no lexeme of JSON).                              *)
(***************************************************************************)
Lex(t) == [t |-> t, v |-> <<>>]
LexNum(n) == [t |-> "num", v |-> n]
LexStr(s) == [t |-> "str", v |-> s]

\* JSON.stringify (members whose value is undefined are left out)
RECURSIVE Stringify(_)
Stringify(o) ==
  CASE o.k = "null" -> <<Lex("null")>>
    [] o.k = "bool" -> <<Lex(IF o.v THEN "true" ELSE "false")>>
    [] o.k = "num" -> <<LexNum(o.v)>>
    [] o.k = "str" -> <<LexStr(o.v)>>
    [] o.k = "arr" ->
         <<Lex("[")>>
           \o JoinWith([i \in 1..Len(o.v) |-> IF o.v[i].k = "undefined" THEN <<Lex("null")>>
                                                ELSE Stringify(o.v[i])],
                       <<Lex(",")>>)
           \o <<Lex("]")>>
    [] o.k = "obj" ->
         <<Lex("{")>>
           \o (LET ms == SelectSeq(o.v, LAMBDA m : m.val.k # "undefined")
               IN JoinWith([i \in 1..Len(ms) |->
                              <<LexStr(ms[i].key), Lex(":")>> \o Stringify(ms[i].val)],
                           <<Lex(",")>>))
           \o <<Lex("}")>>

\* JSON.parse: recursive descent over the lexemes from position i;
\* [ok, val, next], ok FALSE for a SyntaxError
ParseFail == [ok |-> FALSE, val |-> JUndef, next |-> 0]
ParseOk(val, next) == [ok |-> TRUE, val |-> val, next |-> next]

RECURSIVE ParseValue(_, _)
RECURSIVE ParseMembers(_, _, _)
RECURSIVE ParseElements(_, _, _)

ParseValue(toks, i) ==
  IF i > Len(toks) THEN ParseFail
  ELSE LET tk == toks[i] IN
    CASE tk.t = "num" -> ParseOk(JNum(tk.v), i + 1)
      [] tk.t = "str" -> ParseOk(JStr(tk.v), i + 1)
      [] tk.t = "true" -> ParseOk(JBool(TRUE), i + 1)
      [] tk.t = "false" -> ParseOk(JBool(FALSE), i + 1)
      [] tk.t = "null" -> ParseOk(JNull, i + 1)
      [] tk.t = "{" ->
           IF i + 1 <= Len(toks) /\ toks[i + 1].t = "}"
             THEN ParseOk(JObj(<<>>), i + 2)
             ELSE ParseMembers(toks, i + 1, <<>>)
      [] tk.t = "[" ->
           IF i + 1 <= Len(toks) /\ toks[i + 1].t = "]"
             THEN ParseOk(JArr(<<>>), i + 2)
             ELSE ParseElements(toks, i + 1, <<>>)
      [] OTHER -> ParseFail

ParseMembers(toks, i, acc) ==
  IF i + 1 > Len(toks) \/ toks[i].t # "str" \/ toks[i + 1].t # ":" THEN ParseFail
  ELSE LET r == ParseValue(toks, i + 2) IN
    IF ~r.ok \/ r.next > Len(toks) THEN ParseFail
    ELSE LET more == Append(acc, Member(toks[i].v, r.val)) IN
      CASE toks[r.next].t = "," -> ParseMembers(toks, r.next + 1, more)
        [] toks[r.next].t = "}" -> ParseOk(JObj(more), r.next + 1)
        [] OTHER -> ParseFail

ParseElements(toks, i, acc) ==
  LET r == ParseValue(toks, i) IN
    IF ~r.ok \/ r.next > Len(toks) THEN ParseFail
    ELSE LET more == Append(acc, r.val) IN
      CASE toks[r.next].t = "," -> ParseElements(toks, r.next + 1, more)
        [] toks[r.next].t = "]" -> ParseOk(JArr(more), r.next + 1)
        [] OTHER -> ParseFail

JsonParse(toks) ==
  LET r == ParseValue(toks, 1) IN
    IF r.ok /\ r.next = Len(toks) + 1 THEN r ELSE ParseFail

(***************************************************************************)
(* Bytes and text.  A request body is a sequence of byte chunks: the UTF-8 *)
(* bytes of one lexeme each, or xFF, one byte that is not valid UTF-8.     *)
(***************************************************************************)
BadByte == Lex("xFF")

\* new TextDecoder('utf-8').decode: an invalid byte decodes to U+FFFD
DecodeChunk(c) == IF c.t = "xFF" THEN Lex("uFFFD") ELSE c
TextDecode(bytes) == [i \in 1..Len(bytes) |-> DecodeChunk(bytes[i])]

\* the UTF-8 encoding of text: U+FFFD encodes to the three bytes EF BF BD
EncodeChunk(c) == IF c.t = "uFFFD" THEN Lex("xEFxBFxBD") ELSE c
TextEncode(text) == [i \in 1..Len(text) |-> EncodeChunk(text[i])]

(***************************************************************************)
(* util.js: emoji keys.  An emoji descriptor is an object value with the   *)
(* members name, id (optional) and animated (optional).                    *)
(***************************************************************************)
\* the characters encodeURIComponent leaves alone
Unreserved ==
  UpperCase \cup
  {"a", "b", "c", "d", "e", "f", "g", "h", "i", "j", "k", "l", "m", "n", "o", "p",
   "q", "r", "s", "t", "u", "v", "w", "x", "y", "z",
   "0", "1", "2", "3", "4", "5", "6", "7", "8", "9",
   "-", "_", ".", "!", "~", "*", "'", "(", ")"}

\* the percent-encoding of the UTF-8 bytes of one character
PercentEncodeChar(c) ==
  CASE c \in Unreserved -> <<c>>
    [] c = " " -> <<"%", "2", "0">>
    [] c = "\"" -> <<"%", "2", "2">>
    [] c = "%" -> <<"%", "2", "5">>
    [] c = "," -> <<"%", "2", "C">>
    [] c = ":" -> <<"%", "3", "A">>
    [] c = "\n" -> <<"%", "0", "A">>
    [] c = "u1F60A" -> <<"%", "F", "0", "%", "9", "F", "%", "9", "8", "%", "8", "A">>
    [] c = "uFFFD" -> <<"%", "E", "F", "%", "B", "F", "%", "B", "D">>

\* no escaping at all
EncodeURIComponentVerbatim(s) == s

EncodeURIComponent(s) == Flatten([i \in 1..Len(s) |-> PercentEncodeChar(s[i])])

\* the key without the id
encodedEmojiKeyWithoutId(emojiObj) ==
  (IF Truthy(Get(emojiObj, KAnimated)) THEN <<"a", ":">> ELSE <<>>)
    \o EncodeURIComponent(ToStringJs(Get(emojiObj, KName)))

\* a text: (animated ? 'a:' : '') + encodeURIComponent(name) + (id ? ':' + id : '')
encodedEmojiKey(emojiObj) ==
  LET name == Get(emojiObj, KName)
      id == Get(emojiObj, KId)
      animated == Get(emojiObj, KAnimated)
  IN (IF Truthy(animated) THEN <<"a", ":">> ELSE <<>>)
       \o EncodeURIComponent(ToStringJs(name))
       \o (IF Truthy(id) THEN <<":">> \o ToStringJs(id) ELSE <<>>)

\* a value: id ? encodedEmojiKey(emojiObj) : name
\* the name whatever the descriptor
readableEmojiKeyNameOnly(emojiObj) == Get(emojiObj, KName)

readableEmojiKey(emojiObj) ==
  IF Truthy(Get(emojiObj, KId))
    THEN JStr(encodedEmojiKey(emojiObj))
    ELSE Get(emojiObj, KName)

\* decodeURIComponent: every escape back to its character, [ok, text] with ok
\* FALSE (a URIError) for a '%' that starts no escape
RECURSIVE DecodeURIComponent(_)
DecodeURIComponent(s) ==
  IF s = <<>> THEN [ok |-> TRUE, text |-> <<>>]
  ELSE LET escapes == {c \in {" ", "\"", "%", ",", ":", "\n", "u1F60A", "uFFFD"} :
                         /\ Len(PercentEncodeChar(c)) <= Len(s)
                         /\ SubSeq(s, 1, Len(PercentEncodeChar(c))) = PercentEncodeChar(c)}
           c == IF Head(s) = "%" THEN CHOOSE e \in escapes : TRUE ELSE Head(s)
           rest == IF Head(s) = "%"
                     THEN DecodeURIComponent(SubSeq(s, Len(PercentEncodeChar(c)) + 1, Len(s)))
                     ELSE DecodeURIComponent(Tail(s))
       IN IF Head(s) = "%" /\ escapes = {} THEN [ok |-> FALSE, text |-> <<>>]
          ELSE [ok |-> rest.ok, text |-> IF rest.ok THEN <<c>> \o rest.text ELSE <<>>]

(***************************************************************************)
(* util.js: CSV quoting and building.                                      *)
(***************************************************************************)
\* strVal.replaceAll('"', '""')
DoubleQuotes(s) == Flatten([i \in 1..Len(s) |-> IF s[i] = "\"" THEN <<"\"", "\"">> ELSE <<s[i]>>])

\* the line feed left out of the character class: /[",]/
NeedsQuotingOnOneLine(s) == \E i \in 1..Len(s) : s[i] \in {"\"", ","}

\* /[",\n]/.test(strVal)
NeedsQuoting(s) == \E i \in 1..Len(s) : s[i] \in {"\"", ",", "\n"}

\* val.toString() throws a TypeError for undefined and null
csvQuoteThrows(val) == IsNullish(val)

csvQuote(val) ==
  LET strVal == ToStringJs(val) IN
    IF NeedsQuoting(strVal) THEN <<"\"">> \o DoubleQuotes(strVal) \o <<"\"">> ELSE strVal

\* CsvBuilder.addLine: the builder's text after adding one line of values
addLineThrows(line) == \E i \in 1..Len(line) : csvQuoteThrows(line[i])

\* this.csv = ... in place of this.csv += ...
addLineOverwrites(csv, line) ==
  JoinWith([i \in 1..Len(line) |-> csvQuote(line[i])], <<",">>) \o <<"\n">>

addLine(csv, line) == csv \o JoinWith([i \in 1..Len(line) |-> csvQuote(line[i])], <<",">>) \o <<"\n">>

\* new CsvBuilder(header): this.csv = ''; if (header) this.addLine(header)
CsvBuilder(header) == IF Truthy(header) THEN addLine(<<>>, header.v) ELSE <<>>

\* CsvBuilder.build
build(csv) == csv

(***************************************************************************)
(* server: the request, signature verification, responses.                 *)
(*                                                                         *)
(* A header is [present |-> BOOLEAN, value |-> v].  The value of the       *)
(* timestamp header is a text; that of the signature header is             *)
(* [kind |-> k, msg |-> bytes]: kind "ed25519" for the signature the       *)
(* platform's private key makes over the bytes msg, "garbage" for hex that *)
(* is no such signature, "empty" for the empty string.                     *)
(***************************************************************************)
EmptySignature == [kind |-> "empty", msg |-> <<>>]
GarbageSignature == [kind |-> "garbage", msg |-> <<>>]

\* the UTF-8 bytes of a header text, one chunk per character
Utf8(text) == [i \in 1..Len(text) |-> [t |-> "chr", v |-> text[i]]]

\* the platform signs timestamp || body
Sign(timestamp, body) == [kind |-> "ed25519", msg |-> Utf8(timestamp) \o body]

\* verifyKey of discord-interactions: true exactly for a signature made over
\* the concatenation of the timestamp's bytes and the body handed in
verifyKey(rawBody, signature, timestamp) ==
  signature.kind = "ed25519" /\ signature.msg = Utf8(timestamp) \o rawBody

\* req.headers.get(name) || ''
HeaderOrEmpty(h, empty) == IF h.present THEN h.value ELSE empty

\* response members
KContent == <<"c", "o", "n", "t", "e", "n", "t">>
KFlags == <<"f", "l", "a", "g", "s">>
KError == <<"e", "r", "r", "o", "r">>
KStatus == <<"s", "t", "a", "t", "u", "s">>
KCustomId == <<"c", "u", "s", "t", "o", "m", "_", "i", "d">>
KTitle == <<"t", "i", "t", "l", "e">>
KComponents == <<"c", "o", "m", "p", "o", "n", "e", "n", "t", "s">>
KLabel == <<"l", "a", "b", "e", "l">>
KComponent == <<"c", "o", "m", "p", "o", "n", "e", "n", "t">>
KStyle == <<"s", "t", "y", "l", "e">>
KValue == <<"v", "a", "l", "u", "e">>
KLength == <<"l", "e", "n", "g", "t", "h">>

\* an HTTP response: status, content kind ("text" or "json") and body (a value)
Response(status, kind, body) == [status |-> status, kind |-> kind, body |-> body]

\* text('[discordMiddleware] Invalid signature', { status: 401 })
InvalidSignatureResponse == Response(401, "text", JStr(InvalidSignatureText))

\* a plain object returned by a handler: the router sends it as JSON, status 200
JsonResponse(obj) == Response(200, "json", obj)

\* { type: InteractionResponseType.PONG }
PongResponse == JsonResponse(JObj(<<Member(KType, JNum(PONG))>>))

\* { type: CHANNEL_MESSAGE_WITH_SOURCE, data: { content, flags: EPHEMERAL } }
MessageResponse(content) ==
  JsonResponse(JObj(<<Member(KType, JNum(CHANNEL_MESSAGE_WITH_SOURCE)),
                      Member(KData, JObj(<<Member(KContent, JStr(content)),
                                           Member(KFlags, JNum(EPHEMERAL))>>))>>))

\* new Date().toISOString(): one instant stands for all
TimeStr ==
  <<"2", "0", "2", "5", "-", "1", "1", "-", "0", "6", "T", "2", "1", ":", "4", "1",
    ":", "4", "0", "Z">>

\* { type: MODAL, data: { custom_id, title, components: [ { type: LABEL, label,
\*   component: { type: INPUT_TEXT, custom_id, style: PARAGRAPH, value: content } } ] } }
ModalResponse(content) ==
  JsonResponse(JObj(<<
    Member(KType, JNum(MODAL)),
    Member(KData, JObj(<<
      Member(KCustomId, JStr(TimeStr \o <<"_", "m", "o", "d", "a", "l">>)),
      Member(KTitle, JStr(<<"R", "e", "a", "c", "t", "i", "o", "n", " ", "l", "i", "s",
                            "t", " ", "i", "n", " ", "C", "S", "V", " ", "f", "o", "r",
                            "m", "a", "t">>)),
      Member(KComponents, JArr(<<JObj(<<
        Member(KType, JNum(LABEL)),
        Member(KLabel, JStr(<<"C", "S", "V">>)),
        Member(KComponent, JObj(<<
          Member(KType, JNum(INPUT_TEXT)),
          Member(KCustomId, JStr(TimeStr \o <<"_", "i", "n", "p", "u", "t">>)),
          Member(KStyle, JNum(PARAGRAPH)),
          Member(KValue, JStr(content))>>))>>)>>))>>))>>))

\* env.DISCORD_APPLICATION_ID
ApplicationId == <<"1", "2", "3", "4", "5", "6", "7", "8", "9">>

InviteUrl ==
  <<"h", "t", "t", "p", "s", ":", "/", "/", "d", "i", "s", "c", "o", "r", "d", ".",
    "c", "o", "m", "/", "o", "a", "u", "t", "h", "2", "/", "a", "u", "t", "h", "o",
    "r", "i", "z", "e", "?", "c", "l", "i", "e", "n", "t", "_", "i", "d", "=">>
    \o ApplicationId \o
  <<"&", "p", "e", "r", "m", "i", "s", "s", "i", "o", "n", "s", "=", "6", "6", "5",
    "6", "0", "&", "i", "n", "t", "e", "g", "r", "a", "t", "i", "o", "n", "_", "t",
    "y", "p", "e", "=", "0", "&", "s", "c", "o", "p", "e", "=", "b", "o", "t", "+",
    "a", "p", "p", "l", "i", "c", "a", "t", "i", "o", "n", "s", ".", "c", "o", "m",
    "m", "a", "n", "d", "s">>

\* json({ error }) with the status left out
ErrorResponseWithoutStatus(message) ==
  Response(200, "json", JObj(<<Member(KError, JStr(message))>>))

\* json({ error }, { status: 400 })
ErrorResponse(message) == Response(400, "json", JObj(<<Member(KError, JStr(message))>>))

\* the router's catch: console.error(e), then itty-router's error(e), which
\* answers an Error that carries no status with 500 and { status, error: e.message }
CatchResponse(message) ==
  Response(500, "json", JObj(<<Member(KStatus, JNum(500)), Member(KError, JStr(message))>>))

\* messages of the errors the runtime throws
SyntaxErrorText == <<"S", "y", "n", "t", "a", "x", "E", "r", "r", "o", "r">>
TypeErrorText == <<"T", "y", "p", "e", "E", "r", "r", "o", "r">>

(***************************************************************************)
(* The requests the model is run on.                                       *)
(***************************************************************************)
Emoji(name, id, animated) ==
  JObj(<<Member(KName, JStr(name))>>
         \o (IF id # <<>> THEN <<Member(KId, JStr(id))>> ELSE <<>>)
         \o (IF animated THEN <<Member(KAnimated, JBool(TRUE))>> ELSE <<>>))

Reaction(count, emoji) == JObj(<<Member(KCount, JNum(count)), Member(KEmoji, emoji)>>)

\* the reactions small messages are made of: a tie in count, a unicode, a plain
\* custom and an animated custom emoji
ReactionPool ==
  << Reaction(2, Emoji(<<"w", "i", "n", "k">>, <<>>, FALSE)),
     Reaction(2, Emoji(<<"l", "o", "l">>, <<"3", "0", "0", "0">>, FALSE)),
     Reaction(1, Emoji(<<"f", "o", "o", " ", "b", "a", "r">>, <<"1", "0", "0", "1">>, TRUE)),
     Reaction(3, Emoji(<<"u1F60A">>, <<>>, FALSE)) >>

\* index sequences into the pool, without repetition, of length 0..MaxReactions
SmallLists ==
  UNION {{f \in [1..n -> 1..Len(ReactionPool)] :
            \A i, j \in 1..n : i # j => f[i] # f[j]} : n \in 0..MaxReactions}

\* the message of the test "should sort and truncate reactions to 30":
\* reactions e1..e34 with counts 1..34
BigReactions ==
  [i \in 1..TestReactionCount |-> Reaction(i, Emoji(<<"e">> \o NumToString(i), <<>>, FALSE))]

\* a message of two reactions more than the limit whose counts are 2 and 1 in
\* turn: the cut falls among the reactions of count 1
TiedReactions ==
  [i \in 1..(ReactionLimit + 2) |->
     Reaction(1 + (i % 2), Emoji(<<"t">> \o NumToString(i), <<>>, FALSE))]

MessageId == <<"1", "0", "0", "0">>

Message(members) ==
  JObj(<<Member(KId, JStr(MessageId)), Member(<<"c", "h", "a", "n", "n", "e", "l", "_", "i", "d">>,
                                               JStr(<<"1">>))>> \o members)

\* makeReactionCsvRequestBody: the command with its target message resolved
CommandInteraction(name, dataMembers) ==
  JObj(<<Member(KType, JNum(APPLICATION_COMMAND)),
         Member(KData, JObj(<<Member(KName, JStr(name))>> \o dataMembers))>>)

ReactionCsvInteraction(message, targetId) ==
  CommandInteraction(ReactionCsvName,
    <<Member(KResolved,
             JObj(<<Member(KMessages, JObj(<<Member(MessageId, message)>>))>>)),
      Member(KTargetId, JStr(targetId))>>)

Shapes ==
  {"ping", "othertype", "stringtype", "notype", "false", "invite", "inviteUpper",
   "unknowncmd", "unknownUpper", "nodata", "unresolved", "noreactions", "big", "tied", "truncated", "badbyte", "emptybody"}

\* the body of a request: shape names it, rs lists the reactions of a small message
Body(shape, rs) ==
  CASE shape = "ping" -> Stringify(JObj(<<Member(KType, JNum(PING))>>))
    [] shape = "othertype" ->
         Stringify(JObj(<<Member(KType, JNum(3)),
                          Member(KData, JObj(<<Member(KName, JStr(<<"u", "n", "k", "n", "o", "w", "n">>))>>))>>))
    [] shape = "stringtype" ->
         Stringify(JObj(<<Member(KType, JStr(<<"2">>)),
                          Member(KData, JObj(<<Member(KName, JStr(InviteName))>>))>>))
    [] shape = "notype" -> Stringify(JObj(<<>>))
    [] shape = "false" -> Stringify(JBool(FALSE))
    [] shape = "invite" -> Stringify(CommandInteraction(InviteName, <<>>))
    [] shape = "inviteUpper" ->
         Stringify(CommandInteraction(<<"I", "N", "V", "I", "T", "E">>, <<>>))
    [] shape = "unknowncmd" ->
         Stringify(CommandInteraction(<<"u", "n", "k", "n", "o", "w", "n">>, <<>>))
    [] shape = "unknownUpper" ->
         Stringify(CommandInteraction(<<"G", "e", "t", " ", "C", "S", "V">>, <<>>))
    [] shape = "nodata" -> Stringify(JObj(<<Member(KType, JNum(APPLICATION_COMMAND))>>))
    [] shape = "unresolved" ->
         Stringify(ReactionCsvInteraction(Message(<<>>), <<"2", "0", "0", "0">>))
    [] shape = "noreactions" ->
         Stringify(ReactionCsvInteraction(Message(<<>>), MessageId))
    [] shape = "small" ->
         Stringify(ReactionCsvInteraction(
           Message(<<Member(KReactions, JArr([i \in 1..Len(rs) |-> ReactionPool[rs[i]]]))>>),
           MessageId))
    [] shape = "big" ->
         Stringify(ReactionCsvInteraction(
           Message(<<Member(KReactions, JArr(BigReactions))>>), MessageId))
    [] shape = "tied" ->
         Stringify(ReactionCsvInteraction(
           Message(<<Member(KReactions, JArr(TiedReactions))>>), MessageId))
    [] shape = "truncated" -> <<Lex("{"), LexStr(KType), Lex(":")>>
    [] shape = "badbyte" ->
         Stringify(JObj(<<Member(KType, JNum(PING))>>)) \o <<BadByte>>
    [] shape = "emptybody" -> <<>>

Timestamp1 == <<"1", "7">>
Timestamp2 == <<"1", "8">>

AuthKinds ==
  {"valid", "nosignature", "notimestamp", "noheaders", "emptysignature", "garbage",
   "tampered", "othertimestamp"}

Header(value) == [present |-> TRUE, value |-> value]
NoHeader(value) == [present |-> FALSE, value |-> value]

\* the request: the headers auth names around the body
Request(auth, body) ==
  LET good == Sign(Timestamp1, body)
      \* the body the platform signed, when the one sent was changed afterwards
      signed == body \o <<BadByte>>
  IN [ signature |->
         CASE auth \in {"valid", "notimestamp", "othertimestamp"} -> Header(good)
           [] auth \in {"nosignature", "noheaders"} -> NoHeader(EmptySignature)
           [] auth = "emptysignature" -> Header(EmptySignature)
           [] auth = "garbage" -> Header(GarbageSignature)
           [] auth = "tampered" -> Header(Sign(Timestamp1, signed)),
       timestamp |->
         CASE auth \in {"notimestamp", "noheaders"} -> NoHeader(<<>>)
           [] auth = "othertimestamp" -> Header(Timestamp2)
           [] OTHER -> Header(Timestamp1),
       body |-> body ]

\* what the upstream answers to a fetch: a rejection, a fulfilment with a list of
\* k users, or a fulfilment with a value that is no list
Outcome(kind, k) == [kind |-> kind, k |-> k]

User(id, username) == JObj(<<Member(KId, JStr(id)), Member(KUsername, JStr(username))>>)

\* the j-th user the upstream lists for the i-th fetch of a small message
SmallUser(i, j) ==
  User(NumToString(1000 * i + j),
       IF j = 1 THEN <<"m", "y", ",", "\"", "n">> ELSE <<"u">> \o NumToString(10 * i + j))

\* the user every fetch of the test's big message returns
BigUser == User(<<"1", "0", "0", "0">>, <<"m", "y", "n", "a", "m", "e">>)

RejectionReason == JStr(<<"s", "e", "k", "r", "i", "t">>)
NotAList == JObj(<<Member(<<"c", "o", "d", "e">>, JNum(0))>>)

(***************************************************************************)
(* The state of one POST / request.                                        *)
(***************************************************************************)
VARIABLES
  req,          \* the request as received: signature and timestamp headers, body
  pc,           \* where the request is: "received", "verifying", "handler",
                \* "launching", "awaitAll", "done"
  verifyCalls,  \* the calls of server.verifyKey, [rawBody, signature, timestamp] each
  interaction,  \* req.interaction (undefined until the middleware sets it)
  handlerRan,   \* whether the route handler was entered
  reactions,    \* the array object message.reactions, as the handler has left it
  promises,     \* the promises of reactions.map(async ...), one per launched fetch
  fetchCalls,   \* the emoji of every call of fetcher.fetch, in call order
  all,          \* the promise of Promise.all(promises)
  content,      \* the handler's variable content
  responses     \* the responses sent for the request

(***************************************************************************)
(* The state of the functions and classes of util.js when they are called  *)
(* on their own, as the unit tests call them.                              *)
(***************************************************************************)
VARIABLES
  fetcher,      \* one call of ReactionUserListFetcher.fetch: its arguments, the
                \* transport's answer, where the call is and what it settled with
  builder,      \* one CsvBuilder: this.csv, the calls made on it, what build() returned
  quoted,       \* one call of csvQuote: the value and what was returned
  keyed,        \* emoji descriptors and the keys computed for them
  pair          \* two requests in the worker at once: where the middleware of each
                \* is, what it saved, what each was answered, and globalThis.Buffer

utilVars == <<fetcher, builder, quoted, keyed, pair>>

vars ==
  <<req, pc, verifyCalls, interaction, handlerRan, reactions, promises, fetchCalls,
    all, content, responses, fetcher, builder, quoted, keyed, pair>>

\* no function of util.js is being called on its own
UtilIdle ==
  /\ fetcher = [pc |-> "idle"]
  /\ builder = [pc |-> "idle"]
  /\ quoted = [pc |-> "idle"]
  /\ keyed = [pc |-> "idle"]
  /\ pair = [pc |-> "idle"]

NoPromiseAll == [state |-> "none", value |-> JUndef]

Init ==
  /\ \E auth \in AuthKinds :
       \/ \E shape \in Shapes : req = Request(auth, Body(shape, <<>>))
       \/ \E rs \in SmallLists : req = Request(auth, Body("small", rs))
  /\ pc = "received"
  /\ verifyCalls = <<>>
  /\ interaction = JUndef
  /\ handlerRan = FALSE
  /\ reactions = <<>>
  /\ promises = <<>>
  /\ fetchCalls = <<>>
  /\ all = NoPromiseAll
  /\ content = JUndef
  /\ responses = <<>>
  /\ UtilIdle

\* the response is sent twice
RespondTwice(r) == /\ responses' = responses \o <<r, r>>
                   /\ pc' = "done"

Respond(r) == /\ responses' = Append(responses, r)
              /\ pc' = "done"

(***************************************************************************)
(* discordMiddleware, up to the await of server.verifyKey: the body is     *)
(* read as bytes, the headers are read with '' for a missing one, and      *)
(* verifyKey is called with them.                                          *)
(***************************************************************************)
\* the body is read as text and encoded again (req.text())
VerifyArgumentsOfText(r) ==
  [ rawBody |-> TextEncode(TextDecode(r.body)),
    signature |-> HeaderOrEmpty(r.signature, EmptySignature),
    timestamp |-> HeaderOrEmpty(r.timestamp, <<>>) ]

VerifyArguments(r) ==
  [ rawBody |-> r.body,
    signature |-> HeaderOrEmpty(r.signature, EmptySignature),
    timestamp |-> HeaderOrEmpty(r.timestamp, <<>>) ]

MiddlewareStart ==
  /\ UNCHANGED utilVars
  /\ pc = "received"
  /\ verifyCalls' = Append(verifyCalls, VerifyArguments(req))
  /\ pc' = "verifying"
  /\ UNCHANGED <<req, interaction, handlerRan, reactions, promises, fetchCalls, all,
                 content, responses>>

(***************************************************************************)
(* discordMiddleware, from the result of verifyKey on: 401, or the body    *)
(* parsed (a SyntaxError goes to the router's catch), PONG for a PING, and *)
(* req.interaction set otherwise.                                          *)
(***************************************************************************)
\* JSON.parse(new TextDecoder('utf-8').decode(rawBody))
ParseBody(rawBody) == JsonParse(TextDecode(rawBody))

\* the awaited result of verifyKey is not looked at
SignatureRejectedNoAwait(call) == FALSE

\* !(await server.verifyKey(rawBody, signature, timestamp, clientPublicKey))
SignatureRejected(call) == ~verifyKey(call.rawBody, call.signature, call.timestamp)

\* the type is looked for in body.data
IsPingOfData(body) == IsNum(Get(Get(body, KData), KType), PING)

\* body.type === InteractionType.PING
IsPing(body) == IsNum(Get(body, KType), PING)

MiddlewareVerified ==
  /\ UNCHANGED utilVars
  /\ pc = "verifying"
  /\ LET call == verifyCalls[Len(verifyCalls)]
         parsed == ParseBody(call.rawBody)
         body == IF Truthy(parsed.val) THEN parsed.val ELSE JObj(<<>>)
     IN IF SignatureRejected(call)
          THEN Respond(InvalidSignatureResponse) /\ UNCHANGED interaction
        ELSE IF ~parsed.ok
          THEN Respond(CatchResponse(SyntaxErrorText)) /\ UNCHANGED interaction
        ELSE IF IsPing(body)
          THEN Respond(PongResponse) /\ UNCHANGED interaction
        ELSE /\ interaction' = body
             /\ pc' = "handler"
             /\ UNCHANGED responses
  /\ UNCHANGED <<req, verifyCalls, handlerRan, reactions, promises, fetchCalls, all,
                 content>>

(***************************************************************************)
(* The route handler, up to its first await.                               *)
(***************************************************************************)
\* the check of the length is left out
LengthOfUnchecked(o) == JNum(1)

\* value.length
LengthOf(o) ==
  CASE o.k \in {"arr", "str"} -> JNum(Len(o.v))
    [] OTHER -> Get(o, KLength)

Count(reaction) == Get(reaction, KCount).v

\* a sort that is not stable: the element goes before those of its own count
RECURSIVE InsertByCountBeforeTies(_, _)
InsertByCountBeforeTies(sorted, r) ==
  IF sorted = <<>> THEN <<r>>
  ELSE IF Count(Head(sorted)) > Count(r)
    THEN <<Head(sorted)>> \o InsertByCountBeforeTies(Tail(sorted), r)
    ELSE <<r>> \o sorted

\* where the stable sort puts an element that came after all of sorted: behind
\* every element whose count is not below its own
RECURSIVE InsertByCount(_, _)
InsertByCount(sorted, r) ==
  IF sorted = <<>> THEN <<r>>
  ELSE IF Count(Head(sorted)) >= Count(r)
    THEN <<Head(sorted)>> \o InsertByCount(Tail(sorted), r)
    ELSE <<r>> \o sorted

\* the comparator the other way round: (a, b) => a.count - b.count
RECURSIVE InsertByCountAscending(_, _)
InsertByCountAscending(sorted, r) ==
  IF sorted = <<>> THEN <<r>>
  ELSE IF Count(Head(sorted)) <= Count(r)
    THEN <<Head(sorted)>> \o InsertByCountAscending(Tail(sorted), r)
    ELSE <<r>> \o sorted

RECURSIVE SortByCountAscending(_)
SortByCountAscending(rs) ==
  IF rs = <<>> THEN <<>>
  ELSE InsertByCountAscending(SortByCountAscending(SubSeq(rs, 1, Len(rs) - 1)), rs[Len(rs)])

\* reactions.sort((a, b) => b.count - a.count)
RECURSIVE SortByCount(_)
SortByCount(rs) ==
  IF rs = <<>> THEN <<>>
  ELSE InsertByCount(SortByCount(SubSeq(rs, 1, Len(rs) - 1)), rs[Len(rs)])

\* if (reactions.length > 30) reactions.length = 30
Truncate(rs) == IF Len(rs) > ReactionLimit THEN SubSeq(rs, 1, ReactionLimit) ELSE rs

\* data?.resolved?.messages?.[data?.target_id]
TargetMessage(data) ==
  Get(Get(Get(data, KResolved), KMessages), ToStringJs(Get(data, KTargetId)))

\* globalThis.testExplode: nothing in the program sets it
testExplode == JUndef

\* the handler returns or throws at once
HandlerResponds(r) ==
  /\ Respond(r)
  /\ UNCHANGED <<reactions>>

RouteHandler ==
  /\ UNCHANGED utilVars
  /\ pc = "handler"
  /\ handlerRan' = TRUE
  /\ LET data == Get(interaction, KData)
         name == Get(data, KName)
         command == ToLowerCase(name.v)
         message == TargetMessage(data)
         list == Get(message, KReactions)
     IN IF IsNum(Get(interaction, KType), APPLICATION_COMMAND)
          THEN IF name.k # "str"
                 \* interaction.data.name.toLowerCase() throws
                 THEN HandlerResponds(CatchResponse(TypeErrorText))
               ELSE IF command = ToLowerCase(ReactionCsvName)
                 THEN IF ~Truthy(LengthOf(list))
                        THEN HandlerResponds(MessageResponse(NoReactionsFound))
                      ELSE IF list.k # "arr"
                        \* reactions.sort is not a function
                        THEN HandlerResponds(CatchResponse(TypeErrorText))
                      ELSE /\ reactions' = Truncate(SortByCount(list.v))
                           /\ pc' = "launching"
                           /\ UNCHANGED responses
               ELSE IF command = ToLowerCase(InviteName)
                 THEN HandlerResponds(MessageResponse(InviteUrl))
               ELSE HandlerResponds(ErrorResponse(UnknownCommandPrefix \o command))
        ELSE IF Truthy(testExplode)
          THEN HandlerResponds(CatchResponse(ToStringJs(testExplode)))
        ELSE HandlerResponds(
               ErrorResponse(UnknownTypePrefix \o ToStringJs(Get(interaction, KType))))
  /\ UNCHANGED <<req, verifyCalls, interaction, promises, fetchCalls, all, content>>

(***************************************************************************)
(* reactions.map(async ({ emoji }) => [readableEmojiKey(emoji),            *)
(*                                     await fetcher.fetch(emoji)]):       *)
(* one step per reaction, each running its async function up to the await. *)
(***************************************************************************)
Promise(emojiKey, state, value) == [emojiKey |-> emojiKey, state |-> state, value |-> value]

LaunchFetch ==
  /\ UNCHANGED utilVars
  /\ pc = "launching"
  /\ Len(promises) < Len(reactions)
  /\ LET reaction == reactions[Len(promises) + 1]
         emoji == Get(reaction, KEmoji)
     IN IF IsNullish(reaction) \/ IsNullish(emoji)
          \* destructuring undefined throws inside the async function
          THEN /\ promises' = Append(promises, Promise(JUndef, "rejected", JStr(TypeErrorText)))
               /\ UNCHANGED fetchCalls
          ELSE /\ promises' = Append(promises, Promise(readableEmojiKey(emoji), "pending", JUndef))
               /\ fetchCalls' = Append(fetchCalls, emoji)
  /\ UNCHANGED <<req, pc, verifyCalls, interaction, handlerRan, reactions, all, content,
                 responses>>

(***************************************************************************)
(* Promise.all: rejected with the reason of the first promise to reject,   *)
(* fulfilled with the results in the order of the promises once all of     *)
(* them are fulfilled.                                                     *)
(***************************************************************************)
\* the key of one promise beside the users of another
AllResultsMisaligned(ps) ==
  [i \in 1..Len(ps) |-> [emojiKey |-> ps[i].emojiKey, users |-> ps[Len(ps) + 1 - i].value]]

\* the value Promise.all fulfils with: [emojiKey, users] per promise, in order
AllResults(ps) == [i \in 1..Len(ps) |-> [emojiKey |-> ps[i].emojiKey, users |-> ps[i].value]]

\* Promise.allSettled in its place: fulfilled once all are settled, a rejected
\* promise counting as an empty list
PromiseAllSettled(ps, before) ==
  IF before.state \in {"fulfilled", "rejected"} THEN before
  ELSE IF \A i \in 1..Len(ps) : ps[i].state # "pending"
    THEN [state |-> "fulfilled",
          value |-> JArr([i \in 1..Len(ps) |->
                           [emojiKey |-> ps[i].emojiKey,
                            users |-> IF ps[i].state = "fulfilled" THEN ps[i].value
                                      ELSE JArr(<<>>)]])]
  ELSE [state |-> "pending", value |-> JUndef]

\* Promise.race in its place: settled as soon as one promise is, the results of the
\* others as they stand
PromiseRace(ps, before) ==
  IF before.state \in {"fulfilled", "rejected"} THEN before
  ELSE IF \E i \in 1..Len(ps) : ps[i].state = "rejected"
    THEN [state |-> "rejected",
          value |-> ps[CHOOSE i \in 1..Len(ps) : ps[i].state = "rejected"].value]
  ELSE IF \E i \in 1..Len(ps) : ps[i].state = "fulfilled"
    THEN [state |-> "fulfilled", value |-> JArr(AllResults(ps))]
  ELSE [state |-> "pending", value |-> JUndef]

PromiseAll(ps, before) ==
  IF before.state \in {"fulfilled", "rejected"} THEN before
  ELSE IF \E i \in 1..Len(ps) : ps[i].state = "rejected"
    THEN [state |-> "rejected",
          value |-> ps[CHOOSE i \in 1..Len(ps) : ps[i].state = "rejected"].value]
  ELSE IF \A i \in 1..Len(ps) : ps[i].state = "fulfilled"
    THEN [state |-> "fulfilled", value |-> JArr(AllResults(ps))]
  ELSE [state |-> "pending", value |-> JUndef]

\* each fetch awaited before the next is started: the handler waits once the
\* first is launched
AwaitAllAfterFirst ==
  /\ UNCHANGED utilVars
  /\ pc = "launching"
  /\ Len(promises) >= 1
  /\ all' = PromiseAll(promises, all)
  /\ pc' = "awaitAll"
  /\ UNCHANGED <<req, verifyCalls, interaction, handlerRan, reactions, promises,
                 fetchCalls, content, responses>>

\* const responses = await Promise.all(promises): the handler starts to wait
AwaitAll ==
  /\ UNCHANGED utilVars
  /\ pc = "launching"
  /\ Len(promises) = Len(reactions)
  /\ all' = PromiseAll(promises, all)
  /\ pc' = "awaitAll"
  /\ UNCHANGED <<req, verifyCalls, interaction, handlerRan, reactions, promises,
                 fetchCalls, content, responses>>

(***************************************************************************)
(* The upstream answers a fetch.  The fetches of a message of at most      *)
(* FreeSettleLimit reactions settle in every order and with every outcome; *)
(* those of a bigger one settle from the two ends of the launch order, each*)
(* with the test's one user, or, the first and the last, with a rejection. *)
(***************************************************************************)
Small == Len(promises) <= FreeSettleLimit

CanSettle(i) ==
  /\ pc \in {"awaitAll", "done"}
  /\ promises[i].state = "pending"
  /\ \/ Small
     \/ \A j \in 1..(i - 1) : promises[j].state # "pending"
     \/ \A j \in (i + 1)..Len(promises) : promises[j].state # "pending"

SmallUsers(i, k) == JArr([j \in 1..k |-> SmallUser(i, j)])

FulfilValues(i) ==
  IF Small THEN {Outcome("users", k) : k \in 0..MaxUsers} \cup {Outcome("notalist", 0)}
  ELSE {Outcome("big", 1)}

FulfilValue(i, o) ==
  CASE o.kind = "users" -> SmallUsers(i, o.k)
    [] o.kind = "notalist" -> NotAList
    [] o.kind = "big" -> JArr(<<BigUser>>)

\* a rejected fetch is called once more
SettleRetrying(i, state, value) ==
  /\ promises' = [promises EXCEPT ![i] = Promise(@.emojiKey, state, value)]
  /\ all' = PromiseAll(promises', all)
  /\ fetchCalls' = IF state = "rejected" THEN Append(fetchCalls, fetchCalls[i])
                   ELSE fetchCalls
  /\ UNCHANGED <<req, pc, verifyCalls, interaction, handlerRan, reactions, content,
                 responses>>

Settle(i, state, value) ==
  /\ promises' = [promises EXCEPT ![i] = Promise(@.emojiKey, state, value)]
  /\ all' = PromiseAll(promises', all)
  /\ UNCHANGED <<req, pc, verifyCalls, interaction, handlerRan, reactions, fetchCalls,
                 content, responses>>

FetchFulfils ==
  \E i \in 1..Len(promises) :
    /\ UNCHANGED utilVars
    /\ CanSettle(i)
    /\ \E o \in FulfilValues(i) : Settle(i, "fulfilled", FulfilValue(i, o))

FetchRejects ==
  \E i \in 1..Len(promises) :
    /\ UNCHANGED utilVars
    /\ CanSettle(i)
    /\ Small \/ i \in {1, Len(promises)}
    /\ Settle(i, "rejected", RejectionReason)

(***************************************************************************)
(* The handler after the await: the CSV is built from the results, or the  *)
(* catch answers; then the response.                                       *)
(***************************************************************************)
Built(threw, csv) == [threw |-> threw, csv |-> csv]

\* for (const user of users) builder.addLine([emojiKey, user.id, user.username])
RECURSIVE AddUsers(_, _, _)
AddUsers(b, emojiKey, users) ==
  IF b.threw \/ users = <<>> THEN b
  ELSE LET user == Head(users)
           line == <<emojiKey, Get(user, KId), Get(user, KUsername)>>
       IN IF IsNullish(user) \/ addLineThrows(line)
            THEN Built(TRUE, b.csv)
            ELSE AddUsers(Built(FALSE, addLine(b.csv, line)), emojiKey, Tail(users))

\* what for ... of iterates over: the elements of an array, the characters of a
\* string; anything else is not iterable
Iterable(o) == o.k \in {"arr", "str"}
Items(o) == IF o.k = "str" THEN [i \in 1..Len(o.v) |-> JStr(<<o.v[i]>>)] ELSE o.v

\* for (const [emojiKey, users] of responses) ...
RECURSIVE AddResponses(_, _)
AddResponses(b, results) ==
  IF b.threw \/ results = <<>> THEN b
  ELSE LET r == Head(results) IN
    IF ~Iterable(r.users) THEN Built(TRUE, b.csv)
    ELSE AddResponses(AddUsers(b, r.emojiKey, Items(r.users)), Tail(results))

\* the try block: the builder with its header, a line per user, build()
BuildCsv(results) ==
  LET b == AddResponses(
             Built(FALSE, CsvBuilder(JArr(<<JStr(HeaderEmoji), JStr(HeaderUserId),
                                            JStr(HeaderUserName)>>))),
             results)
  IN Built(b.threw, build(b.csv))

\* the response of a request whose CSV was built
SuccessResponse(csv) == ModalResponse(csv)

HandlerResumes ==
  /\ UNCHANGED utilVars
  /\ pc = "awaitAll"
  /\ all.state \in {"fulfilled", "rejected"}
  /\ LET built == IF all.state = "fulfilled" THEN BuildCsv(all.value.v)
                  ELSE Built(TRUE, <<>>)
     IN IF built.threw
          THEN /\ Respond(MessageResponse(SomethingWentWrong))
               /\ UNCHANGED content
          ELSE /\ content' = JStr(built.csv)
               /\ Respond(SuccessResponse(built.csv))
  /\ UNCHANGED <<req, verifyCalls, interaction, handlerRan, reactions, promises,
                 fetchCalls, all>>

Next ==
  \/ MiddlewareStart
  \/ MiddlewareVerified
  \/ RouteHandler
  \/ LaunchFetch
  \/ AwaitAll
  \/ FetchFulfils
  \/ FetchRejects
  \/ HandlerResumes

Spec == Init /\ [][Next]_vars

(***************************************************************************)
(* What the worker's scheduling guarantees.  The worker's own code runs    *)
(* when it can: a synchronous stretch runs to its end, and the continuation*)
(* of an await runs once the awaited promise has settled; the middleware's *)
(* only await is of the local verifyKey.  Weak fairness of a step, for the *)
(* three steps whose bodies always leave the position they wait at, is     *)
(* written with the position in the place of ENABLED.  That a fetch        *)
(* settles is up to the upstream and no part of the worker: it is an       *)
(* assumption of its own.                                                  *)
(***************************************************************************)
\* the result of verifyKey arrives: the step is possible exactly while verifying
MiddlewareVerifiedRuns ==
  []<>(pc # "verifying") \/ []<><<MiddlewareVerified>>_vars

\* the route handler is entered: possible exactly when the middleware has passed
RouteHandlerRuns ==
  []<>(pc # "handler") \/ []<><<RouteHandler>>_vars

\* the await of Promise.all is resumed: possible exactly once it has settled
HandlerResumesRuns ==
  []<>~(pc = "awaitAll" /\ all.state \in {"fulfilled", "rejected"})
    \/ []<><<HandlerResumes>>_vars

WorkerRuns ==
  /\ WF_vars(MiddlewareStart)
  /\ MiddlewareVerifiedRuns
  /\ RouteHandlerRuns
  /\ WF_vars(LaunchFetch \/ AwaitAll)
  /\ HandlerResumesRuns

FetchSettles == FetchFulfils \/ FetchRejects

\* the worker runs; the upstream may leave any fetch unanswered for ever
FailFastSpec == Init /\ [][Next]_vars /\ WorkerRuns

\* the worker runs and every launched fetch settles in the end
FairSpec == Init /\ [][Next]_vars /\ WorkerRuns /\ WF_vars(FetchSettles)

(***************************************************************************)
(* ReactionUserListFetcher.fetch called on its own, against a transport    *)
(* (the global fetch) that answers in every way a transport or a test's    *)
(* mock of it answers.  The repository holds the method twice: util.js     *)
(* returns res.json() whatever the response, the copy of commands.js       *)
(* throws for a response that is not ok.                                   *)
(***************************************************************************)
\* no POST / request is being handled
ServerIdle ==
  /\ req = Request("valid", Body("ping", <<>>))
  /\ pc = "idle"
  /\ verifyCalls = <<>>
  /\ interaction = JUndef
  /\ handlerRan = FALSE
  /\ reactions = <<>>
  /\ promises = <<>>
  /\ fetchCalls = <<>>
  /\ all = NoPromiseAll
  /\ content = JUndef
  /\ responses = <<>>

\* an Error object: its name and its message, a text in chunks
JError(name, message) == [k |-> "error", v |-> [name |-> name, message |-> message]]

\* a Response: res.ok is true for a status in the range 200..299
HttpResponse(status, body) ==
  [k |-> "response", v |-> [ok |-> status \in 200..299, status |-> status, body |-> body]]

\* what the transport's promise settles with, by kind of answer
Transports ==
  {"networkError", "false", "null", "undefined", "okUsers", "okEmpty", "okNotJson",
   "notFoundText", "notFoundJson", "serverErrorJson"}

TransportAnswer(kind) ==
  CASE kind = "networkError" ->
         JError("TypeError", TextDecode(Utf8(<<"f", "e", "t", "c", "h", " ", "f", "a", "i", "l", "e", "d">>)))
    [] kind = "false" -> JBool(FALSE)
    [] kind = "null" -> JNull
    [] kind = "undefined" -> JUndef
    [] kind = "okUsers" -> HttpResponse(200, Stringify(SmallUsers(1, 2)))
    [] kind = "okEmpty" -> HttpResponse(200, Stringify(JArr(<<>>)))
    [] kind = "okNotJson" -> HttpResponse(200, Utf8(RejectionReason.v))
    [] kind = "notFoundText" -> HttpResponse(404, Utf8(RejectionReason.v))
    [] kind = "notFoundJson" -> HttpResponse(404, Stringify(NotAList))
    [] kind = "serverErrorJson" -> HttpResponse(500, Stringify(JArr(<<BigUser>>)))

\* `${baseUrl}/${encodedEmojiKey(emojiObj)}?limit=100`
FetchUrl(message, emojiObj) ==
  <<"h", "t", "t", "p", "s", ":", "/", "/", "d", "i", "s", "c", "o", "r", "d", ".", "c", "o",
    "m", "/", "a", "p", "i", "/", "v", "1", "0", "/", "c", "h", "a", "n", "n", "e", "l", "s", "/">>
    \o ToStringJs(Get(message, <<"c", "h", "a", "n", "n", "e", "l", "_", "i", "d">>))
    \o <<"/", "m", "e", "s", "s", "a", "g", "e", "s", "/">>
    \o ToStringJs(Get(message, KId))
    \o <<"/", "r", "e", "a", "c", "t", "i", "o", "n", "s">>
    \o <<"/">> \o encodedEmojiKey(emojiObj)
    \o <<"?", "l", "i", "m", "i", "t", "=", "1", "0", "0">>

\* a settled promise of fetch
Settled(state, value) == [state |-> state, value |-> value]

\* return res.json(): the body parsed, a SyntaxError for a body that is no JSON
ResJson(res) ==
  LET parsed == JsonParse(TextDecode(res.v.body))
  IN IF parsed.ok THEN Settled("fulfilled", parsed.val)
     ELSE Settled("rejected", JError("SyntaxError", TextDecode(Utf8(SyntaxErrorText))))

\* reading a property of null or undefined, or calling a method the value lacks
ThrowsTypeError == Settled("rejected", JError("TypeError", TextDecode(Utf8(TypeErrorText))))

\* util.js, after const res = await fetch(url, { headers })
fetchOfUtil(res) ==
  IF res.k = "response" THEN ResJson(res) ELSE ThrowsTypeError

\* commands.js, after const res = await fetch(url, { headers })
fetchOfCommands(res) ==
  IF IsNullish(res) THEN ThrowsTypeError
  ELSE IF res.k # "response"
    \* res.ok is undefined, and evaluating the message calls res.text
    THEN ThrowsTypeError
  ELSE IF ~res.v.ok
    THEN Settled("rejected",
                 JError("Error", TextDecode(Utf8(<<"H", "T", "T", "P", " ">>
                                                  \o NumToString(res.v.status)
                                                  \o <<" ", "e", "r", "r", "o", "r", ":", " ">>)
                                            \o res.v.body)))
  ELSE ResJson(res)

FetchInit ==
  /\ ServerIdle
  /\ \E version \in {"util.js", "commands.js"}, i \in 1..Len(ReactionPool),
        transport \in Transports :
       fetcher = [pc |-> "called", version |-> version,
                  emoji |-> Get(ReactionPool[i], KEmoji), transport |-> transport,
                  url |-> <<>>, state |-> "pending", value |-> JUndef]
  /\ builder = [pc |-> "idle"]
  /\ quoted = [pc |-> "idle"]
  /\ keyed = [pc |-> "idle"]
  /\ pair = [pc |-> "idle"]

\* the method runs up to its await: the URL is made and the transport called
FetchCalled ==
  /\ fetcher.pc = "called"
  /\ fetcher' = [fetcher EXCEPT !.pc = "awaiting",
                                !.url = FetchUrl(Message(<<>>), fetcher.emoji)]
  /\ UNCHANGED <<req, pc, verifyCalls, interaction, handlerRan, reactions, promises,
                 fetchCalls, all, content, responses, builder, quoted, keyed, pair>>

\* the transport settles and the method runs to its end
FetchSettled ==
  /\ fetcher.pc = "awaiting"
  /\ LET answer == TransportAnswer(fetcher.transport)
         end == IF fetcher.transport = "networkError" THEN Settled("rejected", answer)
                ELSE IF fetcher.version = "util.js" THEN fetchOfUtil(answer)
                ELSE fetchOfCommands(answer)
     IN fetcher' = [fetcher EXCEPT !.pc = "settled", !.state = end.state,
                                   !.value = end.value]
  /\ UNCHANGED <<req, pc, verifyCalls, interaction, handlerRan, reactions, promises,
                 fetchCalls, all, content, responses, builder, quoted, keyed, pair>>

FetchNext ==
  \/ FetchCalled
  \/ FetchSettled

FetchSpec == FetchInit /\ [][FetchNext]_vars

(***************************************************************************)
(* csvQuote and CsvBuilder called on their own.  A cell is a string over   *)
(* the characters the quoting rule tells apart (and a space, a single      *)
(* quote, a letter, an emoji), a number, a boolean, an object or an array. *)
(***************************************************************************)
\* the strings of at most MaxCellLen characters
CellTexts ==
  UNION {[1..n -> {",", "\"", "\n", " ", "'", "a", "u1F60A"}] : n \in 0..MaxCellLen}

\* the values csvQuote is called with, by kind
Cells ==
  {[kind |-> "str", text |-> t, num |-> 0] : t \in CellTexts}
    \cup {[kind |-> "num", text |-> <<>>, num |-> n] : n \in {0, 1, 5, 1000}}
    \cup {[kind |-> k, text |-> <<>>, num |-> 0] : k \in {"true", "false", "obj", "arr"}}

CellValue(c) ==
  CASE c.kind = "str" -> JStr(c.text)
    [] c.kind = "num" -> JNum(c.num)
    [] c.kind = "true" -> JBool(TRUE)
    [] c.kind = "false" -> JBool(FALSE)
    [] c.kind = "obj" -> JObj(<<>>)
    [] c.kind = "arr" -> JArr(<<JStr(<<"a">>), JNull, JStr(<<"\"">>)>>)

\* the headers a builder is made with: none, and arrays of cells
HeaderPool ==
  << JUndef,
     JArr(<<JStr(<<"a">>), JStr(<<"b">>)>>),
     JArr(<<JStr(<<"\"", "h", "e", "l", "l", "o", "\"">>), JStr(<<"h", "o", "w", "d", "y">>)>>),
     JArr(<<>>) >>

\* the lines added to it
LinePool ==
  << <<JStr(<<"b", "y", "e", ",", " ", "b", "y", "e">>), JNum(1000)>>,
     <<JNum(1), JStr(<<"u1F60A">>)>>,
     <<JStr(<<"a", "\n", "'">>)>>,
     <<>> >>

CsvInit ==
  /\ ServerIdle
  /\ fetcher = [pc |-> "idle"]
  /\ keyed = [pc |-> "idle"]
  /\ pair = [pc |-> "idle"]
  /\ \/ /\ \E c \in Cells : quoted = [pc |-> "called", val |-> c, out |-> <<>>]
        /\ builder = [pc |-> "idle"]
     \/ /\ quoted = [pc |-> "idle"]
        /\ \E h \in 1..Len(HeaderPool) :
             builder = [pc |-> "new", header |-> h, csv |-> <<>>, lines |-> <<>>,
                        built |-> <<>>]

\* csvQuote(val)
QuoteCalled ==
  /\ quoted.pc = "called"
  /\ quoted' = [quoted EXCEPT !.pc = "returned", !.out = csvQuote(CellValue(quoted.val))]
  /\ UNCHANGED <<req, pc, verifyCalls, interaction, handlerRan, reactions, promises,
                 fetchCalls, all, content, responses, fetcher, builder, keyed, pair>>

\* new CsvBuilder(header)
BuilderConstructed ==
  /\ builder.pc = "new"
  /\ builder' = [builder EXCEPT !.pc = "ready", !.csv = CsvBuilder(HeaderPool[builder.header])]
  /\ UNCHANGED <<req, pc, verifyCalls, interaction, handlerRan, reactions, promises,
                 fetchCalls, all, content, responses, fetcher, quoted, keyed, pair>>

\* builder.addLine(line)
AddLineCalled ==
  /\ builder.pc = "ready"
  /\ Len(builder.lines) < MaxLines
  /\ \E l \in 1..Len(LinePool) :
       builder' = [builder EXCEPT !.csv = addLine(builder.csv, LinePool[l]),
                                  !.lines = Append(builder.lines, l)]
  /\ UNCHANGED <<req, pc, verifyCalls, interaction, handlerRan, reactions, promises,
                 fetchCalls, all, content, responses, fetcher, quoted, keyed, pair>>

\* builder.build(): what it returned is kept with the number of lines added so far
BuildCalled ==
  /\ builder.pc = "ready"
  /\ Len(builder.built) < MaxBuilds
  /\ builder' = [builder EXCEPT !.built = Append(builder.built,
                                                  [after |-> Len(builder.lines),
                                                   result |-> build(builder.csv)])]
  /\ UNCHANGED <<req, pc, verifyCalls, interaction, handlerRan, reactions, promises,
                 fetchCalls, all, content, responses, fetcher, quoted, keyed, pair>>

CsvNext ==
  \/ QuoteCalled
  \/ BuilderConstructed
  \/ AddLineCalled
  \/ BuildCalled

CsvSpec == CsvInit /\ [][CsvNext]_vars

(***************************************************************************)
(* encodedEmojiKey and readableEmojiKey called on their own, for two emoji *)
(* descriptors at a time: a unicode emoji (no id, not animated), a plain   *)
(* custom emoji (a name and an id of digits) or an animated custom emoji   *)
(* (the same, animated).                                                   *)
(***************************************************************************)
\* the names of at most MaxNameLen characters: a letter, a character the
\* percent-encoding escapes, the escape character itself, an emoji
EmojiNames == UNION {[1..n -> {"a", ":", "%", "u1F60A"}] : n \in 1..MaxNameLen}

Descriptors ==
  {[kind |-> "unicode", name |-> n, id |-> <<>>] : n \in EmojiNames}
    \cup {[kind |-> "custom", name |-> n, id |-> i] :
            n \in EmojiNames, i \in {<<"1">>, <<"1", "2">>}}
    \cup {[kind |-> "animated", name |-> n, id |-> <<"1">>] : n \in EmojiNames}

\* { name, id, animated } of a descriptor
EmojiOf(d) == Emoji(d.name, d.id, d.kind = "animated")

KeyInit ==
  /\ ServerIdle
  /\ fetcher = [pc |-> "idle"]
  /\ builder = [pc |-> "idle"]
  /\ quoted = [pc |-> "idle"]
  /\ pair = [pc |-> "idle"]
  /\ \E a \in Descriptors, b \in Descriptors :
       keyed = [pc |-> "called", a |-> a, b |-> b,
                encoded |-> <<>>, readable |-> <<>>]

\* encodedEmojiKey and readableEmojiKey of both descriptors
KeysComputed ==
  /\ keyed.pc = "called"
  /\ keyed' = [keyed EXCEPT
                 !.pc = "returned",
                 !.encoded = <<encodedEmojiKey(EmojiOf(keyed.a)),
                               encodedEmojiKey(EmojiOf(keyed.b))>>,
                 !.readable = <<readableEmojiKey(EmojiOf(keyed.a)),
                                readableEmojiKey(EmojiOf(keyed.b))>>]
  /\ UNCHANGED <<req, pc, verifyCalls, interaction, handlerRan, reactions, promises,
                 fetchCalls, all, content, responses, fetcher, builder, quoted, pair>>

KeySpec == KeyInit /\ [][KeysComputed]_vars

(***************************************************************************)
(* Two requests in the worker at once.  Each goes through its middleware   *)
(* and the route handler; what the two have in common is the global object.*)
(* The repository holds two middlewares: the one that calls server.verifyKey*)
(* ("part_000") and the one that hands the body to verifyKeyMiddleware and *)
(* puts a stand-in for globalThis.Buffer in place around the awaited call  *)
(* ("server.js").  The requests are commands that call no fetch, validly   *)
(* signed, so that each passes its middleware.                             *)
(***************************************************************************)
\* globalThis.Buffer: { isBuffer: (o) => o === body } of the request r, and, for
\* r = 0, what it was before any request
BufferOf(r) == [of |-> r]

\* what the route handler returns for an interaction that calls no fetch
Dispatch(body) ==
  LET name == Get(Get(body, KData), KName)
      command == ToLowerCase(name.v)
  IN IF IsNum(Get(body, KType), APPLICATION_COMMAND)
       THEN IF name.k # "str" THEN CatchResponse(TypeErrorText)
            ELSE IF command = ToLowerCase(InviteName) THEN MessageResponse(InviteUrl)
            ELSE ErrorResponse(UnknownCommandPrefix \o command)
     ELSE ErrorResponse(UnknownTypePrefix \o ToStringJs(Get(body, KType)))

\* JSON.parse(...) || {} of a request body
Interaction(rawBody) ==
  LET parsed == ParseBody(rawBody)
  IN IF Truthy(parsed.val) THEN parsed.val ELSE JObj(<<>>)

PairInit ==
  /\ ServerIdle
  /\ fetcher = [pc |-> "idle"]
  /\ builder = [pc |-> "idle"]
  /\ quoted = [pc |-> "idle"]
  /\ keyed = [pc |-> "idle"]
  /\ \E version \in {"part_000", "server.js"},
        a \in {"invite", "unknowncmd", "othertype", "false"},
        b \in {"invite", "unknowncmd", "othertype", "false"} :
       pair = [pc |-> "run", version |-> version, Buffer |-> BufferOf(0),
               at |-> <<"received", "received">>,
               body |-> <<Body(a, <<>>), Body(b, <<>>)>>,
               oldBuffer |-> <<BufferOf(0), BufferOf(0)>>,
               interaction |-> <<JUndef, JUndef>>,
               responses |-> << <<>>, <<>> >>]

PairUnchanged ==
  UNCHANGED <<req, pc, verifyCalls, interaction, handlerRan, reactions, promises,
              fetchCalls, all, content, responses, fetcher, builder, quoted, keyed>>

\* the middleware of request r after await req.bytes(), up to the await of the
\* verification: in server.js, const oldBuffer = globalThis.Buffer and
\* globalThis.Buffer = { isBuffer } come first
PairMiddlewareStart(r) ==
  /\ pair.pc = "run"
  /\ pair.at[r] = "received"
  /\ pair' = IF pair.version = "server.js"
               THEN [pair EXCEPT !.at[r] = "verifying",
                                 !.oldBuffer[r] = pair.Buffer,
                                 !.Buffer = BufferOf(r)]
               ELSE [pair EXCEPT !.at[r] = "verifying"]
  /\ PairUnchanged

\* the verification of request r has passed: in server.js, finally
\* globalThis.Buffer = oldBuffer; then req.interaction is set
PairMiddlewareVerified(r) ==
  /\ pair.pc = "run"
  /\ pair.at[r] = "verifying"
  /\ pair' = [pair EXCEPT !.at[r] = "handler",
                          !.interaction[r] = Interaction(pair.body[r]),
                          !.Buffer = IF pair.version = "server.js" THEN pair.oldBuffer[r]
                                     ELSE @]
  /\ PairUnchanged

\* the route handler of request r
PairRouteHandler(r) ==
  /\ pair.pc = "run"
  /\ pair.at[r] = "handler"
  /\ pair' = [pair EXCEPT !.at[r] = "done",
                          !.responses[r] = Append(@, Dispatch(pair.interaction[r]))]
  /\ PairUnchanged

PairNext ==
  \E r \in {1, 2} :
    \/ PairMiddlewareStart(r)
    \/ PairMiddlewareVerified(r)
    \/ PairRouteHandler(r)

PairSpec == PairInit /\ [][PairNext]_vars

(***************************************************************************)
(* What the properties speak of.                                           *)
(***************************************************************************)
IsStr(o, text) == o.k = "str" /\ o.v = text

Done == pc = "done"

\* the one response of a finished request
TheResponse == responses[1]

\* r is the command response { type: CHANNEL_MESSAGE_WITH_SOURCE,
\* data: { content, flags: EPHEMERAL } } with status 200 and nothing else in it
IsMessageResponse(r, text) ==
  /\ r.status = 200
  /\ r.kind = "json"
  /\ r.body.k = "obj"
  /\ Len(r.body.v) = 2
  /\ IsNum(Get(r.body, KType), CHANNEL_MESSAGE_WITH_SOURCE)
  /\ Get(r.body, KData).k = "obj"
  /\ Len(Get(r.body, KData).v) = 2
  /\ IsStr(Get(Get(r.body, KData), KContent), text)
  /\ IsNum(Get(Get(r.body, KData), KFlags), EPHEMERAL)

\* the request carries a signature the platform made over its timestamp and body
ValidlySigned ==
  /\ req.signature.present
  /\ req.timestamp.present
  /\ req.signature.value = Sign(req.timestamp.value, req.body)

\* the interaction of a validly signed request whose body is JSON
BodyParses == JsonParse(TextDecode(req.body)).ok
ParsedBody == JsonParse(TextDecode(req.body)).val

\* the request is the reaction-CSV command
IsReactionCsv ==
  /\ interaction.k = "obj"
  /\ IsNum(Get(interaction, KType), APPLICATION_COMMAND)
  /\ Get(Get(interaction, KData), KName).k = "str"
  /\ ToLowerCase(Get(Get(interaction, KData), KName).v) = ToLowerCase(ReactionCsvName)

\* the target message of the command and its reactions as they were received
ReceivedMessage ==
  LET data == Get(interaction, KData)
      messages == Get(Get(data, KResolved), KMessages)
  IN IF Get(data, KTargetId).k = "str" THEN Get(messages, Get(data, KTargetId).v)
     ELSE JUndef

Received == Get(ReceivedMessage, KReactions)

AnyRejected == \E i \in 1..Len(promises) : promises[i].state = "rejected"

\* a user list: an array of objects whose id and username are strings
IsUserList(o) ==
  /\ o.k = "arr"
  /\ \A j \in 1..Len(o.v) : /\ Get(o.v[j], KId).k = "str"
                            /\ Get(o.v[j], KUsername).k = "str"

AllFulfilledWithLists ==
  /\ promises # <<>>
  /\ \A i \in 1..Len(promises) :
       promises[i].state = "fulfilled" /\ IsUserList(promises[i].value)

\* a text of cells, quoted by the rule of the CSV format, one line
CsvLine(cells) ==
  JoinWith([c \in 1..Len(cells) |->
              IF \E i \in 1..Len(cells[c]) : cells[c][i] \in {",", "\"", "\n"}
                THEN <<"\"">> \o Flatten([i \in 1..Len(cells[c]) |->
                                            IF cells[c][i] = "\"" THEN <<"\"", "\"">>
                                            ELSE <<cells[c][i]>>]) \o <<"\"">>
                ELSE cells[c]],
           <<",">>) \o <<"\n">>

\* the rows the properties expect: for each fetch in launch order, for each user in
\* the order the fetch returned, (key of the emoji fetched, user.id, user.username)
ExpectedRows ==
  Flatten([i \in 1..Len(promises) |->
    [j \in 1..Len(promises[i].value.v) |->
       << ToStringJs(readableEmojiKey(fetchCalls[i])),
          Get(promises[i].value.v[j], KId).v,
          Get(promises[i].value.v[j], KUsername).v >>]])

ExpectedCsv ==
  CsvLine(<<HeaderEmoji, HeaderUserId, HeaderUserName>>)
    \o Flatten([r \in 1..Len(ExpectedRows) |-> CsvLine(ExpectedRows[r])])

\* the text a response carries to the user: data.content of a message response,
\* the value of the text input of a modal
ModalValue(r) ==
  LET components == Get(Get(r.body, KData), KComponents)
  IN IF components.k = "arr" /\ components.v # <<>>
       THEN Get(Get(components.v[1], KComponent), KValue)
       ELSE JUndef

(***************************************************************************)
(* C1: if a launched fetch has rejected, the handler is not left waiting   *)
(* (Promise.all is rejected), and the finished request has the one         *)
(* response { type: CHANNEL_MESSAGE_WITH_SOURCE, data: { content:          *)
(* 'something went wrong', flags } } of status 200: no row, no error detail.*)
(***************************************************************************)
C1_AnyRejectionGivesFixedMessage ==
  AnyRejected =>
    /\ pc \in {"launching", "awaitAll", "done"}
    /\ pc = "awaitAll" => all.state = "rejected"
    /\ Done => /\ Len(responses) = 1
               /\ IsMessageResponse(TheResponse, SomethingWentWrong)
               /\ content.k = "undefined"

\* one fetch rejected, another fulfilled with a user, and the request is answered
C1_Witness ==
  /\ Done
  /\ AnyRejected
  /\ \E i \in 1..Len(promises) :
       /\ promises[i].state = "fulfilled"
       /\ IsUserList(promises[i].value)
       /\ promises[i].value.v # <<>>

(***************************************************************************)
(* C2: when every fetch has fulfilled with a user list, the fetches were   *)
(* called with the emojis of the sorted and truncated reactions in order,  *)
(* and the CSV is the header followed by the rows of each fetch in launch  *)
(* order, each fetch's users in the order returned, keyed by the readable  *)
(* key of the emoji that fetch was called with: whatever order the fetches *)
(* completed in.                                                           *)
(***************************************************************************)
C2_RowsFollowEmojiThenUserOrder ==
  (Done /\ AllFulfilledWithLists) =>
    /\ Len(fetchCalls) = Len(reactions)
    /\ \A i \in 1..Len(reactions) : fetchCalls[i] = Get(reactions[i], KEmoji)
    /\ IsStr(content, ExpectedCsv)
    /\ Len(responses) = 1
    /\ IsStr(ModalValue(TheResponse), ExpectedCsv)

\* two fetches fulfilled with different user lists, for a message whose reactions
\* the sort reordered
C2_Witness ==
  /\ Done
  /\ AllFulfilledWithLists
  /\ Len(promises) >= 2
  /\ Len(promises[1].value.v) = 2
  /\ Len(promises[2].value.v) = 1
  /\ reactions # Received.v

(***************************************************************************)
(* C3: of a message with n >= 1 reactions the min(n, 30) with the highest  *)
(* counts survive, in descending order of count, and are fetched in that   *)
(* order; of the 34 reactions with counts 1..34 the CSV has exactly 30     *)
(* data rows, the first for e34 and the last for e5.                       *)
(***************************************************************************)
Copies(seq, x) == Cardinality({k \in 1..Len(seq) : seq[k] = x})

NewLines(text) == {i \in 1..Len(text) : text[i] = "\n"}

\* the n-th line of a text that ends with a line feed, without the line feed
Line(text, n) ==
  LET end == CHOOSE i \in NewLines(text) :
               Cardinality({j \in NewLines(text) : j <= i}) = n
      start == IF n = 1 THEN 1
               ELSE 1 + CHOOSE i \in NewLines(text) :
                          Cardinality({j \in NewLines(text) : j <= i}) = n - 1
  IN SubSeq(text, start, end - 1)

C3_TopThirtyByCountDescending ==
  (IsReactionCsv /\ pc \in {"launching", "awaitAll", "done"} /\ reactions # <<>>) =>
    LET received == Received.v
        kept == reactions
        last == Count(kept[Len(kept)])
    IN /\ Len(kept) = Min(Len(received), 30)
       /\ \A i \in 1..(Len(kept) - 1) : Count(kept[i]) >= Count(kept[i + 1])
       /\ \A i \in 1..Len(kept) : Copies(kept, kept[i]) <= Copies(received, kept[i])
       /\ \A j \in 1..Len(received) :
            Copies(kept, received[j]) < Copies(received, received[j])
              => Count(received[j]) <= last
       /\ \A i \in 1..Len(fetchCalls) : fetchCalls[i] = Get(kept[i], KEmoji)
       /\ (Done /\ AllFulfilledWithLists /\ received = BigReactions) =>
            /\ Cardinality(NewLines(content.v)) = 31
            /\ content.v[Len(content.v)] = "\n"
            /\ Line(content.v, 2) =
                 <<"e", "3", "4", ",", "1", "0", "0", "0", ",", "m", "y", "n", "a", "m", "e">>
            /\ Line(content.v, 31) =
                 <<"e", "5", ",", "1", "0", "0", "0", ",", "m", "y", "n", "a", "m", "e">>

\* the test's 34 reactions, every fetch fulfilled, the CSV built
C3_Witness ==
  /\ Done
  /\ IsReactionCsv
  /\ Received.k = "arr"
  /\ Received.v = BigReactions
  /\ Len(reactions) = 30
  /\ AllFulfilledWithLists
  /\ content.k = "str"

(***************************************************************************)
(* C4: the reaction-CSV command for a message with no reactions (the       *)
(* target message not resolved, its reactions missing or empty) calls no   *)
(* fetch and is answered with the content 'no reactions found'.            *)
(***************************************************************************)
NoReactions ==
  \/ ReceivedMessage.k = "undefined"
  \/ Received.k = "undefined"
  \/ Received.k = "arr" /\ Received.v = <<>>

C4_NoReactionsNoFetch ==
  (IsReactionCsv /\ NoReactions) =>
    /\ fetchCalls = <<>>
    /\ promises = <<>>
    /\ pc \in {"handler", "done"}
    /\ Done => /\ Len(responses) = 1
               /\ IsMessageResponse(TheResponse, NoReactionsFound)

\* the command answered for a message whose reactions array is empty
C4_Witness ==
  /\ Done
  /\ IsReactionCsv
  /\ Received.k = "arr"
  /\ Received.v = <<>>
  /\ handlerRan

(***************************************************************************)
(* C5: once verifyKey has answered false for a request, the request is     *)
(* answered with the plain text 401 and nothing else happens for it:       *)
(* req.interaction stays unset, the route handler is not entered, no fetch *)
(* is called.                                                              *)
(***************************************************************************)
VerificationFailed ==
  /\ verifyCalls # <<>>
  /\ ~verifyKey(verifyCalls[1].rawBody, verifyCalls[1].signature, verifyCalls[1].timestamp)

C5_FailedVerificationIsTerminal ==
  VerificationFailed =>
    /\ pc \in {"verifying", "done"}
    /\ interaction.k = "undefined"
    /\ ~handlerRan
    /\ fetchCalls = <<>>
    /\ promises = <<>>
    /\ Done => responses = <<Response(401, "text", JStr(InvalidSignatureText))>>

\* a request with a signature over another body, answered
C5_Witness ==
  /\ Done
  /\ VerificationFailed
  /\ verifyCalls[1].signature.kind = "ed25519"
  /\ responses # <<>>

(***************************************************************************)
(* C6 (as claimed): for a request with the signature header or the         *)
(* timestamp header missing or empty, verifyKey is never called, and the   *)
(* request is answered with 401.                                           *)
(***************************************************************************)
HeaderMissing ==
  \/ ~req.signature.present
  \/ ~req.timestamp.present
  \/ req.signature.value.kind = "empty"
  \/ req.timestamp.value = <<>>

C6_MissingHeaderSkipsVerifyKey ==
  HeaderMissing =>
    /\ verifyCalls = <<>>
    /\ Done => TheResponse.status = 401

(***************************************************************************)
(* C7 (as claimed): a validly signed request whose body is not JSON is     *)
(* answered with a 4xx status other than 401, and the route handler is not *)
(* entered.                                                                *)
(***************************************************************************)
C7_MalformedPayloadIsDistinct4xx ==
  (ValidlySigned /\ ~BodyParses /\ Done) =>
    /\ ~handlerRan
    /\ TheResponse.status \in 400..499
    /\ TheResponse.status # 401

(***************************************************************************)
(* C8: a validly signed request whose body parses to an object of type     *)
(* PING is answered with { type: PONG } by the middleware: the route       *)
(* handler is never entered, req.interaction is not set, no fetch is       *)
(* called.                                                                 *)
(***************************************************************************)
C8_PingAnsweredByMiddleware ==
  LET parsed == JsonParse(TextDecode(req.body))
  IN (ValidlySigned /\ parsed.ok /\ IsNum(Get(parsed.val, KType), PING)) =>
    /\ pc \in {"received", "verifying", "done"}
    /\ ~handlerRan
    /\ interaction.k = "undefined"
    /\ fetchCalls = <<>>
    /\ Done => /\ Len(responses) = 1
               /\ TheResponse.status = 200
               /\ TheResponse.kind = "json"
               /\ Len(TheResponse.body.v) = 1
               /\ IsNum(Get(TheResponse.body, KType), PONG)

\* the PING answered
C8_Witness ==
  /\ Done
  /\ ValidlySigned
  /\ BodyParses
  /\ IsNum(Get(ParsedBody, KType), PING)
  /\ responses # <<>>

(***************************************************************************)
(* C9: verifyKey is called with the body exactly as received, and          *)
(* req.interaction is set only for a request whose received bytes verify   *)
(* against the headers sent, to what those bytes parse to ({} for a falsy  *)
(* value).                                                                 *)
(***************************************************************************)
C9_VerifiesAndParsesTheRawBytes ==
  /\ \A c \in 1..Len(verifyCalls) : verifyCalls[c].rawBody = req.body
  /\ interaction.k # "undefined" =>
       LET parsed == JsonParse(TextDecode(req.body))
       IN /\ ValidlySigned
          /\ verifyCalls # <<>>
          /\ parsed.ok
          /\ IF Truthy(parsed.val) THEN interaction = parsed.val
             ELSE interaction = JObj(<<>>)

\* verifyKey called with a body that holds a byte that is no UTF-8
C9_Witness ==
  /\ verifyCalls # <<>>
  /\ \E i \in 1..Len(req.body) : req.body[i].t = "xFF"
  /\ Done

(***************************************************************************)
(* C10 (as claimed): when every fetch has fulfilled with a user list, the  *)
(* response is { type: CHANNEL_MESSAGE_WITH_SOURCE, data: { content } }    *)
(* with the CSV document as content.                                       *)
(***************************************************************************)
C10_SuccessIsMessageWithCsvContent ==
  (Done /\ AllFulfilledWithLists) =>
    /\ IsNum(Get(TheResponse.body, KType), CHANNEL_MESSAGE_WITH_SOURCE)
    /\ IsStr(Get(Get(TheResponse.body, KData), KContent), ExpectedCsv)

\* part occurs in text, a text in chunks, as a run of consecutive chunks
Includes(text, part) ==
  \E i \in 0..(Len(text) - Len(part)) :
    \A j \in 1..Len(part) : text[i + j].t = part[j].t /\ text[i + j].v = part[j].v

\* the text of an error message, as the chunks messages are held in
MessageText(chars) == TextDecode(Utf8(chars))

\* the call of fetch has settled with an Error whose message holds all the parts
RejectedWith(parts) ==
  /\ fetcher.state = "rejected"
  /\ fetcher.value.k = "error"
  /\ \A n \in 1..Len(parts) : Includes(fetcher.value.v.message, parts[n])

(***************************************************************************)
(* C11 (as claimed): when the transport resolves to a falsy value (false,  *)
(* null, undefined), fetch rejects with an error whose message matches     *)
(* /falsy/.                                                                *)
(***************************************************************************)
C11_FalsyResponseIsItsOwnError ==
  (fetcher.pc = "settled" /\ fetcher.transport \in {"false", "null", "undefined"}) =>
    RejectedWith(<<MessageText(<<"f", "a", "l", "s", "y">>)>>)

(***************************************************************************)
(* C12 (as claimed): when the transport resolves to a response whose       *)
(* status is no success status, fetch rejects with an error whose message  *)
(* holds the status code and the text of the response body; it never       *)
(* fulfils with what the body parses to.                                   *)
(***************************************************************************)
C12_NonSuccessStatusIsAnError ==
  LET res == TransportAnswer(fetcher.transport)
  IN (fetcher.pc = "settled" /\ res.k = "response" /\ ~res.v.ok) =>
       RejectedWith(<<MessageText(NumToString(res.v.status)), TextDecode(res.v.body)>>)

\* s with every double quote written twice
RECURSIVE Doubled(_)
Doubled(s) ==
  IF s = <<>> THEN <<>>
  ELSE (IF Head(s) = "\"" THEN <<"\"", "\"">> ELSE <<Head(s)>>) \o Doubled(Tail(s))

\* the quoting rule of the CSV format, for a cell's string
QuoteReference(s) ==
  IF {s[i] : i \in 1..Len(s)} \cap {",", "\"", "\n"} # {}
    THEN <<"\"">> \o Doubled(s) \o <<"\"">>
    ELSE s

Document(header, lines) ==
  (IF header = 1 THEN <<>>
   ELSE CsvLine([c \in 1..Len(HeaderPool[header].v) |-> ToStringJs(HeaderPool[header].v[c])]))
    \o Flatten([n \in 1..Len(lines) |->
                  CsvLine([c \in 1..Len(LinePool[lines[n]]) |->
                             ToStringJs(LinePool[lines[n]][c])])])

(***************************************************************************)
(* C16: a CsvBuilder holds, and build() returns, the header (if given)     *)
(* and the lines added so far, in call order, each as its quoted cells     *)
(* joined by commas and ended by one line feed; header ['a','b'] and no    *)
(* lines build 'a,b\n'; build() leaves the builder as it was.              *)
(***************************************************************************)
C16_BuildIsHeaderThenLines ==
  builder.pc = "ready" =>
    /\ builder.csv = Document(builder.header, builder.lines)
    /\ \A k \in 1..Len(builder.built) :
         /\ builder.built[k].result =
              Document(builder.header, SubSeq(builder.lines, 1, builder.built[k].after))
         /\ (builder.header = 2 /\ builder.built[k].after = 0) =>
              builder.built[k].result = <<"a", ",", "b", "\n">>

\* built twice around an added line: first the header alone, then with the line
C16_Witness ==
  /\ builder.pc = "ready"
  /\ builder.header = 2
  /\ Len(builder.built) = 2
  /\ builder.built[1].after = 0
  /\ builder.built[2].after = 1
  /\ builder.built[1].result = <<"a", ",", "b", "\n">>
  /\ Len(builder.built[2].result) > 4

(***************************************************************************)
(* C17 (as claimed): for a descriptor with an id that is not animated,     *)
(* readableEmojiKey(d) = encodedEmojiKey(d) = name + ':' + id.             *)
(***************************************************************************)
C17_CustomKeyIsNameColonId ==
  (keyed.pc = "returned" /\ keyed.a.kind = "custom") =>
    /\ keyed.readable[1].k = "str"
    /\ keyed.readable[1].v = keyed.encoded[1]
    /\ keyed.encoded[1] = keyed.a.name \o <<":">> \o keyed.a.id

(***************************************************************************)
(* C17 (amended): for a descriptor with an id that is not animated,        *)
(* readableEmojiKey(d) = encodedEmojiKey(d) = the percent-encoded name     *)
(* + ':' + id: the key ends with ':' and the id, what is before decodes to *)
(* the name and holds no ':', and the key is name + ':' + id when the name *)
(* holds no character that percent-encoding escapes.                       *)
(***************************************************************************)
C17_CustomKeyIsEncodedNameColonId ==
  (keyed.pc = "returned" /\ keyed.a.kind = "custom") =>
    LET key == keyed.encoded[1]
        split == Len(key) - Len(keyed.a.id)
        before == SubSeq(key, 1, split - 1)
    IN /\ keyed.readable[1].k = "str"
       /\ keyed.readable[1].v = key
       /\ split >= 1
       /\ SubSeq(key, split, Len(key)) = <<":">> \o keyed.a.id
       /\ \A n \in 1..Len(before) : before[n] # ":"
       /\ DecodeURIComponent(before).ok
       /\ DecodeURIComponent(before).text = keyed.a.name
       /\ (\A n \in 1..Len(keyed.a.name) : keyed.a.name[n] \in Unreserved) =>
            key = keyed.a.name \o <<":">> \o keyed.a.id

\* a plain custom emoji whose name holds a ':', keyed
C17_Witness ==
  /\ keyed.pc = "returned"
  /\ keyed.a.kind = "custom"
  /\ keyed.a.name = <<"a", ":">>
  /\ keyed.a.id = <<"1", "2">>
  /\ keyed.encoded[1] = <<"a", "%", "3", "A", ":", "1", "2">>

(***************************************************************************)
(* C18: for a descriptor with no id, encodedEmojiKey(d) holds no ':' (no   *)
(* id suffix), percent-decoding it gives the name back, and                *)
(* readableEmojiKey(d) is the name itself.                                 *)
(***************************************************************************)
C18_UnicodeKeyRoundTrips ==
  (keyed.pc = "returned" /\ keyed.a.kind = "unicode") =>
    /\ \A n \in 1..Len(keyed.encoded[1]) : keyed.encoded[1][n] # ":"
    /\ DecodeURIComponent(keyed.encoded[1]).ok
    /\ DecodeURIComponent(keyed.encoded[1]).text = keyed.a.name
    /\ keyed.readable[1].k = "str"
    /\ keyed.readable[1].v = keyed.a.name

\* the emoji of the unit test, keyed
C18_Witness ==
  /\ keyed.pc = "returned"
  /\ keyed.a.kind = "unicode"
  /\ keyed.a.name = <<"u1F60A">>
  /\ keyed.encoded[1] = <<"%", "F", "0", "%", "9", "F", "%", "9", "8", "%", "8", "A">>

\* the name of a unicode emoji holds no ':' (custom emoji are always written
\* with their id after a ':')
WellFormed(d) == d.kind = "unicode" => \A n \in 1..Len(d.name) : d.name[n] # ":"

(***************************************************************************)
(* C19: readableEmojiKey gives one descriptor one key, and gives two       *)
(* well-formed descriptors that differ in kind, name or id two different   *)
(* keys.                                                                   *)
(***************************************************************************)
C19_ReadableKeyTellsEmojiApart ==
  (keyed.pc = "returned" /\ WellFormed(keyed.a) /\ WellFormed(keyed.b)) =>
    /\ keyed.readable[1].k = "str"
    /\ keyed.readable[2].k = "str"
    /\ (keyed.readable[1].v = keyed.readable[2].v) <=> (keyed.a = keyed.b)

\* two custom emoji of one name and two ids, keyed
C19_Witness ==
  /\ keyed.pc = "returned"
  /\ keyed.a.kind = "custom"
  /\ keyed.b.kind = "custom"
  /\ keyed.a.name = keyed.b.name
  /\ keyed.a.id # keyed.b.id
  /\ keyed.readable[1].v # keyed.readable[2].v

\* r is the answer json({ error: text }, { status: 400 }) and nothing else
IsErrorResponse(r, text) ==
  /\ r.status = 400
  /\ r.kind = "json"
  /\ r.body.k = "obj"
  /\ Len(r.body.v) = 1
  /\ IsStr(Get(r.body, KError), text)

(***************************************************************************)
(* C13: an authenticated APPLICATION_COMMAND whose name, lower-cased, is   *)
(* neither the reaction-CSV nor the invite command is answered with status *)
(* 400 and { error: 'Unknown Command: ' + the lower-cased name }, and no   *)
(* fetch is called for it.                                                 *)
(***************************************************************************)
C13_UnknownCommandIs400 ==
  LET name == Get(Get(interaction, KData), KName)
  IN ( /\ ValidlySigned
       /\ interaction.k = "obj"
       /\ IsNum(Get(interaction, KType), APPLICATION_COMMAND)
       /\ name.k = "str"
       /\ ToLowerCase(name.v) # ToLowerCase(ReactionCsvName)
       /\ ToLowerCase(name.v) # ToLowerCase(InviteName) ) =>
       /\ fetchCalls = <<>>
       /\ promises = <<>>
       /\ Done => /\ Len(responses) = 1
                  /\ IsErrorResponse(TheResponse, UnknownCommandPrefix \o ToLowerCase(name.v))

\* the command 'Get CSV' answered with 'Unknown Command: get csv'
C13_Witness ==
  /\ Done
  /\ handlerRan
  /\ ValidlySigned
  /\ IsErrorResponse(TheResponse,
                     <<"U", "n", "k", "n", "o", "w", "n", " ", "C", "o", "m", "m", "a", "n",
                       "d", ":", " ", "g", "e", "t", " ", "c", "s", "v">>)

(***************************************************************************)
(* C14: an authenticated interaction (req.interaction, {} for a body that  *)
(* parses to a falsy value) whose type is neither PING nor                 *)
(* APPLICATION_COMMAND                                                     *)
(* is answered with status 400 and { error: 'Unknown Interaction Type: ' + *)
(* the type }, 'undefined' for a missing type; it gets no command response *)
(* and no fetch.                                                           *)
(***************************************************************************)
C14_UnknownTypeIs400 ==
  LET type == Get(interaction, KType)
      shown == CASE type.k = "undefined" -> <<"u", "n", "d", "e", "f", "i", "n", "e", "d">>
                 [] type.k = "num" -> NumToString(type.v)
                 [] type.k = "str" -> type.v
                 [] OTHER -> ToStringJs(type)
      prefix == <<"U", "n", "k", "n", "o", "w", "n", " ", "I", "n", "t", "e", "r", "a", "c", "t",
                 "i", "o", "n", " ", "T", "y", "p", "e", ":", " ">>
  IN ( /\ ValidlySigned
       /\ interaction.k # "undefined"
       /\ ~IsNum(type, PING)
       /\ ~IsNum(type, APPLICATION_COMMAND) ) =>
       /\ fetchCalls = <<>>
       /\ Done => /\ Len(responses) = 1
                  /\ IsErrorResponse(TheResponse, prefix \o shown)
                  /\ Get(TheResponse.body, KType).k = "undefined"
                  /\ Get(TheResponse.body, KData).k = "undefined"

\* the body false answered with 'Unknown Interaction Type: undefined'
C14_Witness ==
  /\ Done
  /\ handlerRan
  /\ ValidlySigned
  /\ req.body = Stringify(JBool(FALSE))
  /\ IsErrorResponse(TheResponse, UnknownTypePrefix \o <<"u", "n", "d", "e", "f", "i", "n", "e", "d">>)

(***************************************************************************)
(* C20: every fetch of the aggregation, one per reaction that survived the *)
(* cut at 30, is issued before the handler waits: while a fetch is still   *)
(* to be started the handler is not waiting and no fetch has settled, and  *)
(* once it waits there are min(n, 30) fetches in flight or settled.        *)
(***************************************************************************)
C20_AllFetchesIssuedBeforeWaiting ==
  /\ pc = "launching" =>
       \A i \in 1..Len(promises) : promises[i].state = "pending"
  /\ (pc \in {"awaitAll", "done"} /\ reactions # <<>>) =>
       /\ Len(promises) = Len(reactions)
       /\ Len(fetchCalls) = Len(reactions)
       /\ Len(fetchCalls) = Min(Len(Received.v), ReactionLimit)

\* the handler starts to wait with the thirty fetches of the big message in flight
C20_Witness ==
  /\ pc = "awaitAll"
  /\ Len(Received.v) = TestReactionCount
  /\ Len(fetchCalls) = ReactionLimit
  /\ \A i \in 1..Len(promises) : promises[i].state = "pending"

(***************************************************************************)
(* C21: the aggregation builds its output only once every launched fetch   *)
(* has settled.  As claimed: while any fetch of the aggregation is pending *)
(* no row is added and no response is produced.                            *)
(***************************************************************************)
AnyPending == \E i \in 1..Len(promises) : promises[i].state = "pending"

C21_NothingProducedWhilePending ==
  AnyPending => (content.k = "undefined" /\ responses = <<>>)

(***************************************************************************)
(* C21, as the handler does it: while any fetch of the aggregation is      *)
(* pending no row is added and no table is produced (content stays unset, *)
(* Promise.all is not fulfilled); a response produced while a fetch is     *)
(* pending is the fixed 'something went wrong' message and nothing else,   *)
(* after another fetch of the aggregation has rejected.                    *)
(***************************************************************************)
C21_OutputBuiltOnlyAfterEveryFetch ==
  AnyPending =>
    /\ content.k = "undefined"
    /\ all.state # "fulfilled"
    /\ responses # <<>> =>
         /\ AnyRejected
         /\ Len(responses) = 1
         /\ IsMessageResponse(TheResponse, SomethingWentWrong)

\* the table of a message of two reactions, built and sent when both fetches had
\* fulfilled
C21_Witness ==
  /\ Done
  /\ Len(promises) = 2
  /\ ~AnyPending
  /\ ~AnyRejected
  /\ content.k = "str"
  /\ Len(responses) = 1
  /\ ModalValue(TheResponse) = content

(***************************************************************************)
(* C22: fail-fast.  From the moment a fetch of an aggregation has rejected,*)
(* the request comes to be answered with 'something went wrong' and stays  *)
(* answered with that one response and no table, even when the upstream    *)
(* never settles the other fetches, and whatever fetches fulfil afterwards.*)
(***************************************************************************)
AnsweredWentWrong ==
  /\ Len(responses) = 1
  /\ IsMessageResponse(TheResponse, SomethingWentWrong)
  /\ content.k = "undefined"

\* a rejection leads to the request being answered; answered after a rejection is
\* answered with the fixed message; and an answer, once given, stays as it is
C22_RejectionIsAnsweredWithoutWaiting ==
  /\ AnyRejected ~> Done
  /\ []((AnyRejected /\ Done) => AnsweredWentWrong)
  /\ [][Done => (Done' /\ responses' = responses /\ content' = content)]_vars

\* answered after a rejection while another fetch is still pending
C22_Witness ==
  /\ Done
  /\ AnyRejected
  /\ AnyPending
  /\ AnsweredWentWrong

(***************************************************************************)
(* C23: for a message with n >= 1 reactions, once the handler has launched *)
(* its fetches and for the rest of the request, fetcher.fetch has been     *)
(* called exactly min(n, 30) times: once with the emoji of each reaction   *)
(* that survived the truncation, never with the emoji of a dropped one,    *)
(* and not again after a fetch has fulfilled or rejected.                  *)
(***************************************************************************)
FetchesOf(emoji) == Cardinality({i \in 1..Len(fetchCalls) : fetchCalls[i] = emoji})

Survives(reaction) == \E i \in 1..Len(reactions) : reactions[i] = reaction

C23_OneFetchPerSurvivingReaction ==
  (/\ IsReactionCsv
   /\ Received.k = "arr"
   /\ Received.v # <<>>
   /\ pc \in {"awaitAll", "done"}) =>
    /\ Len(fetchCalls) = Min(Len(Received.v), 30)
    /\ Len(promises) = Len(fetchCalls)
    /\ \A j \in 1..Len(Received.v) :
         FetchesOf(Get(Received.v[j], KEmoji)) = IF Survives(Received.v[j]) THEN 1 ELSE 0

\* the test's 34 reactions: 30 fetches called, one of them rejected, the request
\* answered, the emoji of the reaction with the lowest count never fetched
C23_Witness ==
  /\ Done
  /\ IsReactionCsv
  /\ Received.k = "arr"
  /\ Received.v = BigReactions
  /\ Len(fetchCalls) = 30
  /\ AnyRejected
  /\ FetchesOf(Get(BigReactions[1], KEmoji)) = 0

(***************************************************************************)
(* C24: the sort by count is stable.  The reactions the handler works on   *)
(* (and so its fetches, in their order) are the first min(n, 30) of: the   *)
(* received reactions of the highest count in the order received, then     *)
(* those of the next count in the order received, and so on.  Reactions of *)
(* equal count keep their received order, and of a group of equal counts   *)
(* cut by the limit the ones received first are kept.                      *)
(***************************************************************************)
OfCount(rs, c) == SelectSeq(rs, LAMBDA r : Count(r) = c)

RECURSIVE FromCountDown(_, _)
FromCountDown(rs, c) ==
  IF c < 0 THEN <<>> ELSE OfCount(rs, c) \o FromCountDown(rs, c - 1)

HighestCount(rs) ==
  CHOOSE c \in {Count(rs[i]) : i \in 1..Len(rs)} :
    \A i \in 1..Len(rs) : Count(rs[i]) <= c

C24_SortByCountIsStable ==
  (IsReactionCsv /\ pc \in {"launching", "awaitAll", "done"} /\ reactions # <<>>) =>
    LET received == Received.v
        ordered == FromCountDown(received, HighestCount(received))
        kept == SubSeq(ordered, 1, Min(Len(received), 30))
    IN /\ reactions = kept
       /\ \A i \in 1..Len(fetchCalls) : fetchCalls[i] = Get(kept[i], KEmoji)

\* the message whose counts are 2 and 1 in turn: the sixteen of count 2 in the
\* order received, then the first fourteen of count 1; t30 and t32 are dropped
C24_Witness ==
  /\ Done
  /\ IsReactionCsv
  /\ Received.k = "arr"
  /\ Received.v = TiedReactions
  /\ Len(reactions) = 30
  /\ reactions[1] = TiedReactions[1]
  /\ reactions[16] = TiedReactions[31]
  /\ reactions[17] = TiedReactions[2]
  /\ reactions[30] = TiedReactions[28]
  /\ Len(fetchCalls) = 30

(***************************************************************************)
(* C25: the handler leaves the reactions of the message payload as they    *)
(* were received: once the reaction-CSV handler has run, the array         *)
(* message.reactions of the payload has the elements it was received with, *)
(* in the order received.                                                  *)
(***************************************************************************)
C25_ReactionsOfThePayloadAreUnchanged ==
  (/\ IsReactionCsv
   /\ handlerRan
   /\ Received.k = "arr"
   /\ Received.v # <<>>) =>
    reactions = Received.v

(***************************************************************************)
(* C26: requests share no mutable state.  When two requests handled at once*)
(* have both been answered, however their steps were interleaved, each has *)
(* the one response it gets when handled alone, and globalThis.Buffer is   *)
(* what it was before the two arrived.                                     *)
(***************************************************************************)
\* the response of a request that has the worker to itself
AloneResponse(rawBody) == Dispatch(Interaction(rawBody))

BothAnswered == pair.pc = "run" /\ pair.at = <<"done", "done">>

C26_RequestsShareNoState ==
  BothAnswered =>
    /\ \A r \in {1, 2} : pair.responses[r] = <<AloneResponse(pair.body[r])>>
    /\ pair.Buffer = BufferOf(0)

(***************************************************************************)
(* C27: every POST / request receives exactly one response.  When the      *)
(* worker runs and every launched fetch settles, the request comes to be   *)
(* answered, and at no time has it more than one response; the response is *)
(* the 401 text, PONG, a command response (a message or the modal, status  *)
(* 200), a 400 { error }, or the error response of the router's catch      *)
(* (status 500).                                                           *)
(***************************************************************************)
IsCommandResponse(r) ==
  /\ r.status = 200
  /\ r.kind = "json"
  /\ \/ IsNum(Get(r.body, KType), CHANNEL_MESSAGE_WITH_SOURCE)
     \/ IsNum(Get(r.body, KType), MODAL)

IsOneOfTheResponses(r) ==
  \/ r.status = 401 /\ r.kind = "text"
  \/ r = PongResponse
  \/ IsCommandResponse(r)
  \/ r.status = 400 /\ r.kind = "json" /\ Get(r.body, KError).k = "str"
  \/ r.status = 500 /\ r.kind = "json" /\ Get(r.body, KError).k = "str"

AnsweredOnce ==
  /\ Done
  /\ Len(responses) = 1
  /\ IsOneOfTheResponses(TheResponse)

C27_ExactlyOneResponse ==
  /\ [](Len(responses) <= 1)
  /\ <>[]AnsweredOnce

\* a request answered once, with a command response, both of its fetches settled
C27_Witness ==
  /\ AnsweredOnce
  /\ handlerRan
  /\ Len(promises) = 2
  /\ ~AnyPending
  /\ IsCommandResponse(TheResponse)

(***************************************************************************)
(* C28: no authenticated request whose body is JSON makes the handler      *)
(* throw out of the route: such a request is answered with PONG, a command *)
(* response or a 400 { error }, never with the error response of the       *)
(* router's catch.                                                         *)
(***************************************************************************)
C28_NoAuthenticatedRequestThrows ==
  (Done /\ ValidlySigned /\ BodyParses) =>
    /\ Len(responses) = 1
    /\ \/ TheResponse = PongResponse
       \/ IsCommandResponse(TheResponse)
       \/ /\ TheResponse.status = 400
          /\ TheResponse.kind = "json"
          /\ Get(TheResponse.body, KError).k = "str"

=============================================================================
